---- MODULE Spec2Model ----
(***************************************************************************)
(* Model of the Monte Carlo trading simulator of src/app/page.tsx:         *)
(* the seeded generator (mulberry32 / createRng), the statistics           *)
(* primitives (percentile, maxDrawdown, drawdownSeries,                    *)
(* maxConsecutiveLosses, monthlyStatsFromPath, histogram) and              *)
(* runSimulation, stepped one loop iteration at a time.                    *)
(*                                                                         *)
(* Numbers.  A JavaScript number is a pair <<n, d>>:                       *)
(*   d > 0   the rational n/d in lowest terms,                             *)
(*   d = 0   n = 0 is NaN, n = 1 is +Infinity, n = -1 is -Infinity,        *)
(*           n = 2 is the value undefined (it converts to NaN),            *)
(*           n = 3 is the value null.                                      *)
(* Arithmetic on finite values is exact; the rounding of Float64 and the   *)
(* sign of zero are not modelled.  32-bit words are pairs <<hi, lo>> of    *)
(* 16-bit halves, so that the generator's bit operations keep their width. *)
(***************************************************************************)
EXTENDS Integers, Sequences, FiniteSets, TLC

(***************************************************************************)
(* JavaScript numbers                                                      *)
(***************************************************************************)
NaN == <<0, 0>>
PInf == <<1, 0>>
NInf == <<-1, 0>>
Undefined == <<2, 0>>
Null == <<3, 0>>

Abs(i) == IF i < 0 THEN -i ELSE i

RECURSIVE GCD(_, _)
GCD(a, b) == IF b = 0 THEN a ELSE GCD(b, a % b)

\* the rational n/d (d # 0) in lowest terms with a positive denominator
Rat(n, d) ==
  LET g == GCD(Abs(n), Abs(d))
      s == IF d < 0 THEN -1 ELSE 1
  IN  <<(s * n) \div g, (s * d) \div g>>

Num(i) == <<i, 1>>

\* ToNumber: undefined converts to NaN, null to 0
ToNumber(x) == IF x = Undefined THEN NaN ELSE IF x = Null THEN Num(0) ELSE x

IsNaN(x) == ToNumber(x) = NaN
\* Number.isFinite: false for undefined and null (no conversion), NaN, +-Infinity
IsFinite(x) == x[2] > 0
Sign(x) == IF x[1] > 0 THEN 1 ELSE IF x[1] < 0 THEN -1 ELSE 0

Neg(x0) ==
  LET x == ToNumber(x0) IN <<-x[1], x[2]>>

Add(x0, y0) ==
  LET x == ToNumber(x0)
      y == ToNumber(y0)
  IN  IF x = NaN \/ y = NaN THEN NaN
      ELSE IF x[2] = 0 /\ y[2] = 0 THEN (IF x = y THEN x ELSE NaN)
      ELSE IF x[2] = 0 THEN x
      ELSE IF y[2] = 0 THEN y
      ELSE LET g == GCD(x[2], y[2])
           IN  Rat(x[1] * (y[2] \div g) + y[1] * (x[2] \div g), (x[2] \div g) * y[2])

Sub(x, y) == Add(x, Neg(y))

Mul(x0, y0) ==
  LET x == ToNumber(x0)
      y == ToNumber(y0)
  IN  IF x = NaN \/ y = NaN THEN NaN
      ELSE IF x[2] = 0 \/ y[2] = 0
           THEN (IF Sign(x) * Sign(y) = 0 THEN NaN ELSE <<Sign(x) * Sign(y), 0>>)
      ELSE LET g1 == GCD(Abs(x[1]), y[2])
               g2 == GCD(Abs(y[1]), x[2])
           IN  Rat((x[1] \div g1) * (y[1] \div g2), (x[2] \div g2) * (y[2] \div g1))

\* x / y: a zero divisor gives NaN (0/0) or an infinity, never an exception
Div(x0, y0) ==
  LET x == ToNumber(x0)
      y == ToNumber(y0)
  IN  IF x = NaN \/ y = NaN THEN NaN
      ELSE IF x[2] = 0 /\ y[2] = 0 THEN NaN
      ELSE IF x[2] = 0 THEN <<Sign(x) * (IF Sign(y) < 0 THEN -1 ELSE 1), 0>>
      ELSE IF y[2] = 0 THEN Num(0)
      ELSE IF y[1] = 0 THEN (IF x[1] = 0 THEN NaN ELSE <<Sign(x), 0>>)
      ELSE LET g1 == GCD(Abs(x[1]), Abs(y[1]))
               g2 == GCD(x[2], y[2])
           IN  Rat((x[1] \div g1) * (y[2] \div g2), (x[2] \div g2) * (y[1] \div g1))

\* a/b < c/d for a, c >= 0 and b, d > 0, by integer parts and then the
\* reciprocals of the fractional parts (no product is formed)
RECURSIVE RatLess(_, _, _, _)
RatLess(a, b, c, d) ==
  IF a \div b # c \div d THEN a \div b < c \div d
  ELSE IF c % d = 0 THEN FALSE
  ELSE IF a % b = 0 THEN TRUE
  ELSE RatLess(d, c % d, b, a % b)

\* x < y: false as soon as one side is NaN
Lt(x0, y0) ==
  LET x == ToNumber(x0)
      y == ToNumber(y0)
  IN  IF x = NaN \/ y = NaN THEN FALSE
      ELSE IF x[2] = 0 /\ y[2] = 0 THEN x[1] < y[1]
      ELSE IF x[2] = 0 THEN x[1] < 0
      ELSE IF y[2] = 0 THEN y[1] > 0
      ELSE IF x[1] < 0 /\ y[1] >= 0 THEN TRUE
      ELSE IF x[1] >= 0 /\ y[1] < 0 THEN FALSE
      ELSE IF x[1] < 0 THEN RatLess(-y[1], y[2], -x[1], x[2])
      ELSE RatLess(x[1], x[2], y[1], y[2])

Gt(x, y) == Lt(y, x)

\* x === y on numbers: NaN equals nothing
StrictEq(x, y) == x # NaN /\ y # NaN /\ x = y

Le(x0, y0) == Lt(x0, y0) \/ StrictEq(ToNumber(x0), ToNumber(y0))
Ge(x, y) == Le(y, x)

\* Math.max(x, y) and Math.min(x, y): NaN as soon as one argument is NaN
MathMax(x0, y0) ==
  LET x == ToNumber(x0)
      y == ToNumber(y0)
  IN  IF x = NaN \/ y = NaN THEN NaN ELSE IF Lt(x, y) THEN y ELSE x

MathMin(x0, y0) ==
  LET x == ToNumber(x0)
      y == ToNumber(y0)
  IN  IF x = NaN \/ y = NaN THEN NaN ELSE IF Lt(y, x) THEN y ELSE x

MathFloor(x0) ==
  LET x == ToNumber(x0) IN IF x[2] = 0 THEN x ELSE Num(x[1] \div x[2])

MathCeil(x0) ==
  LET x == ToNumber(x0) IN IF x[2] = 0 THEN x ELSE Num(-((-x[1]) \div x[2]))

\* Math.trunc: toward zero; NaN and the infinities are returned unchanged
MathTrunc(x0) ==
  LET x == ToNumber(x0)
  IN  IF x[2] = 0 THEN x
      ELSE IF x[1] >= 0 THEN Num(x[1] \div x[2]) ELSE Num(-((-x[1]) \div x[2]))

MathAbs(x0) ==
  LET x == ToNumber(x0) IN <<Abs(x[1]), x[2]>>

\* x || y on numbers: 0 and NaN are falsy
OrElse(x, y) == IF x = NaN \/ x = Num(0) THEN y ELSE x

\* x ?? y: only undefined and null are replaced
Coalesce(x, y) == IF x = Undefined \/ x = Null THEN y ELSE x

IsInteger(x) == x[2] = 1

(***************************************************************************)
(* 32-bit words <<hi, lo>> and the bit operations mulberry32 uses          *)
(***************************************************************************)
W16 == 2 ^ 16

RECURSIVE BitXor(_, _, _)
BitXor(a, b, n) ==
  IF n = 0 THEN 0 ELSE ((a + b) % 2) + 2 * BitXor(a \div 2, b \div 2, n - 1)

RECURSIVE BitOr(_, _, _)
BitOr(a, b, n) ==
  IF n = 0 THEN 0
  ELSE (IF (a % 2) + (b % 2) > 0 THEN 1 ELSE 0) + 2 * BitOr(a \div 2, b \div 2, n - 1)

\* ToUint32 of an integer-valued number (two's complement wrap of negatives)
ToWord(i) == <<(i \div W16) % W16, i % W16>>

\* x ^ y
WXor(x, y) == <<BitXor(x[1], y[1], 16), BitXor(x[2], y[2], 16)>>

\* x | k for a constant k below 2^16
WOrSmall(x, k) == <<x[1], BitOr(x[2], k, 16)>>

\* x >>> k, 0 < k < 16
WShr(x, k) ==
  <<x[1] \div (2 ^ k), (x[2] \div (2 ^ k)) + (x[1] % (2 ^ k)) * (2 ^ (16 - k))>>

\* x + y modulo 2^32
WAdd(x, y) ==
  LET lo == x[2] + y[2]
  IN  <<(x[1] + y[1] + (lo \div W16)) % W16, lo % W16>>

\* the 32-bit product of two 16-bit halves, as a word (byte-wise, so that no
\* intermediate value leaves the 32-bit signed range)
Mul16(a, b) ==
  LET p1 == (a \div 256) * b
      p0 == (a % 256) * b
      s  == (p1 % 256) * 256 + p0
  IN  <<((p1 \div 256) + (s \div W16)) % W16, s % W16>>

\* Math.imul(x, y): the low 32 bits of the product
WImul(x, y) ==
  LET ll == Mul16(x[2], y[2])
      hl == Mul16(x[1], y[2])
      lh == Mul16(x[2], y[1])
  IN  <<(ll[1] + hl[2] + lh[2]) % W16, ll[2]>>

\* 0x6d2b79f5
Mulberry32Increment == <<27947, 31221>>

\* mulberry32's state after one more call: a += 0x6d2b79f5.  The source keeps a
\* as a number that grows without wrapping (exact below 2^53); every later use
\* converts it with ToInt32, so only a modulo 2^32 is observable.
Mulberry32Advance(a) == WAdd(a, Mulberry32Increment)

\* the word (t ^ (t >>> 14)) >>> 0 that one call of the closure returns over
\* 4294967296, computed from the advanced state a
Mulberry32Output(a) ==
  LET t1 == WImul(WXor(a, WShr(a, 15)), WOrSmall(a, 1))
      t2 == WXor(t1, WAdd(t1, WImul(WXor(t1, WShr(t1, 7)), WOrSmall(t1, 61))))
  IN  WXor(t2, WShr(t2, 14))

\* r <= p for a draw r = word / 2^32 and a number p
DrawLe(w, p0) ==
  LET p  == ToNumber(p0)
      q1 == (p[1] * W16) \div p[2]
      r1 == (p[1] * W16) % p[2]
      q0 == (r1 * W16) \div p[2]
  IN  IF p = NaN THEN FALSE
      ELSE IF p[2] = 0 THEN p[1] > 0
      ELSE IF p[1] < 0 THEN FALSE
      ELSE IF q1 >= W16 THEN TRUE
      ELSE w[1] < q1 \/ (w[1] = q1 /\ w[2] <= q0)

(***************************************************************************)
(* Arrays are sequences; index i of the source is position i + 1 here.     *)
(***************************************************************************)
\* arr[i] for a number i: undefined unless i is an integer index of the array
At(arr, i) ==
  IF IsInteger(i) /\ i[1] >= 0 /\ i[1] < Len(arr) THEN arr[i[1] + 1] ELSE Undefined

RECURSIVE InsertAsc(_, _)
InsertAsc(sorted, v) ==
  IF sorted = <<>> THEN <<v>>
  ELSE IF Lt(v, sorted[1]) THEN <<v>> \o sorted
  ELSE <<sorted[1]>> \o InsertAsc(Tail(sorted), v)

\* [...values].sort((a, b) => a - b): a sorted copy, the argument is untouched
RECURSIVE SortAsc(_)
SortAsc(values) ==
  IF values = <<>> THEN <<>>
  ELSE InsertAsc(SortAsc(SubSeq(values, 1, Len(values) - 1)), values[Len(values)])

\* variant: the rank taken in the array as it comes, without sorting
percentileUnsorted(values, p) ==
  IF Len(values) = 0 THEN Num(0)
  ELSE LET index  == Mul(Div(p, Num(100)), Num(Len(values) - 1))
           lo     == MathFloor(index)
           hi     == MathCeil(index)
           t      == Sub(index, lo)
       IN  IF StrictEq(lo, hi) THEN At(values, lo)
           ELSE Add(At(values, lo), Mul(Sub(At(values, hi), At(values, lo)), t))

\* variant: the interpolation weight measured from the upper rank
percentileFromAbove(values, p) ==
  IF Len(values) = 0 THEN Num(0)
  ELSE LET sorted == SortAsc(values)
           index  == Mul(Div(p, Num(100)), Num(Len(sorted) - 1))
           lo     == MathFloor(index)
           hi     == MathCeil(index)
           t      == Sub(hi, index)
       IN  IF StrictEq(lo, hi) THEN At(sorted, lo)
           ELSE Add(At(sorted, lo), Mul(Sub(At(sorted, hi), At(sorted, lo)), t))

percentile(values, p) ==
  IF Len(values) = 0 THEN Num(0)
  ELSE LET sorted == SortAsc(values)
           index  == Mul(Div(p, Num(100)), Num(Len(sorted) - 1))
           lo     == MathFloor(index)
           hi     == MathCeil(index)
           t      == Sub(index, lo)
       IN  IF StrictEq(lo, hi) THEN At(sorted, lo)
           ELSE Add(At(sorted, lo), Mul(Sub(At(sorted, hi), At(sorted, lo)), t))

\* variant: the array handed to percentile sorted in place
percentileLeavesSorted(values, p) == SortAsc(values)

\* what a call of percentile leaves in the array it is handed: the sort is
\* applied to a copy, [...values].sort
percentileLeaves(values, p) == values

\* variant: the drawdown kept as a positive magnitude, 1 - value / peak
RECURSIVE MaxDrawdownLoopMagnitude(_, _, _, _, _)
MaxDrawdownLoopMagnitude(series, i, peak, minDd, divisors) ==
  IF i >= Len(series) THEN [minDd |-> minDd, divisors |-> divisors]
  ELSE LET v   == series[i + 1]
           pk  == IF Gt(v, peak) THEN v ELSE peak
           dd  == Sub(Num(1), Div(v, pk))
       IN  MaxDrawdownLoopMagnitude(series, i + 1, pk,
                                    IF Gt(dd, minDd) THEN dd ELSE minDd,
                                    Append(divisors, pk))

\* the loop of maxDrawdown from index i (0-based) on; divisors lists the peaks
\* the loop has divided by
RECURSIVE MaxDrawdownLoop(_, _, _, _, _)
MaxDrawdownLoop(series, i, peak, minDd, divisors) ==
  IF i >= Len(series) THEN [minDd |-> minDd, divisors |-> divisors]
  ELSE LET v   == series[i + 1]
           pk  == IF Gt(v, peak) THEN v ELSE peak
           dd  == Sub(Div(v, pk), Num(1))
       IN  MaxDrawdownLoop(series, i + 1, pk,
                           IF Lt(dd, minDd) THEN dd ELSE minDd,
                           Append(divisors, pk))

maxDrawdownRun(series) ==
  IF Len(series) = 0 THEN [minDd |-> Num(0), divisors |-> <<>>]
  ELSE MaxDrawdownLoop(series, 0, series[1], Num(0), <<>>)

maxDrawdown(series) == maxDrawdownRun(series).minDd

RECURSIVE DrawdownSeriesLoop(_, _, _, _, _)
DrawdownSeriesLoop(series, i, peak, out, divisors) ==
  IF i >= Len(series) THEN [out |-> out, divisors |-> divisors]
  ELSE LET v  == series[i + 1]
           pk == IF Gt(v, peak) THEN v ELSE peak
       IN  DrawdownSeriesLoop(series, i + 1, pk,
                              [out EXCEPT ![i + 1] = Sub(Div(v, pk), Num(1))],
                              Append(divisors, pk))

drawdownSeriesRun(series) ==
  LET out == [i \in 1..Len(series) |-> Num(0)]
  IN  IF Len(series) = 0 THEN [out |-> out, divisors |-> <<>>]
      ELSE DrawdownSeriesLoop(series, 0, series[1], out, <<>>)

drawdownSeries(series) == drawdownSeriesRun(series).out

\* variant: only a win ends the run, an outcome of 0 leaves it open
RECURSIVE MaxConsecutiveLossesLoopZeroKeeps(_, _, _, _)
MaxConsecutiveLossesLoopZeroKeeps(rPath, i, run, maxRun) ==
  IF i >= Len(rPath) THEN maxRun
  ELSE IF Lt(rPath[i + 1], Num(0))
       THEN MaxConsecutiveLossesLoopZeroKeeps(rPath, i + 1, run + 1,
                                              IF run + 1 > maxRun THEN run + 1 ELSE maxRun)
       ELSE IF Gt(rPath[i + 1], Num(0))
       THEN MaxConsecutiveLossesLoopZeroKeeps(rPath, i + 1, 0, maxRun)
       ELSE MaxConsecutiveLossesLoopZeroKeeps(rPath, i + 1, run, maxRun)

RECURSIVE MaxConsecutiveLossesLoop(_, _, _, _)
MaxConsecutiveLossesLoop(rPath, i, run, maxRun) ==
  IF i >= Len(rPath) THEN maxRun
  ELSE IF Lt(rPath[i + 1], Num(0))
       THEN MaxConsecutiveLossesLoop(rPath, i + 1, run + 1,
                                     IF run + 1 > maxRun THEN run + 1 ELSE maxRun)
       ELSE MaxConsecutiveLossesLoop(rPath, i + 1, 0, maxRun)

maxConsecutiveLosses(rPath) == Num(MaxConsecutiveLossesLoop(rPath, 0, 0, 0))

(***************************************************************************)
(* monthlyStatsFromPath                                                    *)
(***************************************************************************)
\* the block's drawdown loop, for (i = startIdx; i <= endIdx; i += 1)
RECURSIVE BlockDrawdownLoop(_, _, _, _, _, _)
BlockDrawdownLoop(equityPath, i, endIdx, peak, minDd, divisors) ==
  IF ~Le(i, endIdx) THEN [minDd |-> minDd, divisors |-> divisors]
  ELSE LET value == At(equityPath, i)
           pk    == IF Gt(value, peak) THEN value ELSE peak
           dd    == Sub(Div(value, pk), Num(1))
       IN  BlockDrawdownLoop(equityPath, Add(i, Num(1)), endIdx, pk,
                             IF Lt(dd, minDd) THEN dd ELSE minDd,
                             Append(divisors, pk))

\* variant: a trade with outcome 0 counted as a loss
RECURSIVE BlockOutcomeLoopZeroLoses(_, _, _, _)
BlockOutcomeLoopZeroLoses(rPath, i, endIdx, acc) ==
  IF ~Le(i, endIdx) THEN acc
  ELSE LET r == At(rPath, i)
           next ==
             IF Gt(r, Num(0))
             THEN [acc EXCEPT !.wins = @ + 1, !.lossStreak = 0]
             ELSE [acc EXCEPT !.losses = @ + 1,
                              !.lossStreak = @ + 1,
                              !.maxLossStreak =
                                IF acc.lossStreak + 1 > @ THEN acc.lossStreak + 1 ELSE @]
       IN  BlockOutcomeLoopZeroLoses(rPath, Add(i, Num(1)), endIdx, next)

\* the block's win/loss loop
RECURSIVE BlockOutcomeLoop(_, _, _, _)
BlockOutcomeLoop(rPath, i, endIdx, acc) ==
  IF ~Le(i, endIdx) THEN acc
  ELSE LET r == At(rPath, i)
           next ==
             IF Gt(r, Num(0))
             THEN [acc EXCEPT !.wins = @ + 1, !.lossStreak = 0]
             ELSE IF Lt(r, Num(0))
             THEN [acc EXCEPT !.losses = @ + 1,
                              !.lossStreak = @ + 1,
                              !.maxLossStreak =
                                IF acc.lossStreak + 1 > @ THEN acc.lossStreak + 1 ELSE @]
             ELSE [acc EXCEPT !.lossStreak = 0]
       IN  BlockOutcomeLoop(rPath, Add(i, Num(1)), endIdx, next)

\* variant: the month wrapped to 1 when it reaches 12
RECURSIVE MonthlyLoopWrapsAtTwelve(_, _, _, _, _, _, _, _, _, _)
MonthlyLoopWrapsAtTwelve(equityPath, rPath, m, nMonths, safeTradesPerMonth, prevEquity, year, month, rows, divisors) ==
  LET nTrades  == Len(equityPath)
      startIdx == Mul(Num(m), safeTradesPerMonth)
      endIdx   == Sub(MathMin(Mul(Num(m + 1), safeTradesPerMonth), Num(nTrades)), Num(1))
      endEquity   == At(equityPath, endIdx)
      returnValue == Sub(Div(endEquity, prevEquity), Num(1))
      dd  == BlockDrawdownLoop(equityPath, startIdx, endIdx, prevEquity, Num(0), <<>>)
      oc  == BlockOutcomeLoop(rPath, startIdx, endIdx,
               [wins |-> 0, losses |-> 0, lossStreak |-> 0, maxLossStreak |-> 0])
      trades  == oc.wins + oc.losses
      winRate == IF trades = 0 THEN Num(0) ELSE Rat(oc.wins, trades)
      row == [year |-> year, month |-> month, returnValue |-> returnValue,
              maxDrawdown |-> dd.minDd, winRate |-> winRate,
              maxConsecutiveLosses |-> Num(oc.maxLossStreak),
              endEquity |-> endEquity]
      month1 == Add(month, Num(1))
      wrap   == StrictEq(month1, Num(12))
  IN  IF ~Lt(Num(m), nMonths) THEN [rows |-> rows, divisors |-> divisors]
      ELSE IF Lt(endIdx, startIdx) THEN [rows |-> rows, divisors |-> divisors]
      ELSE MonthlyLoopWrapsAtTwelve(equityPath, rPath, m + 1, nMonths, safeTradesPerMonth,
                       endEquity,
                       IF wrap THEN Add(year, Num(1)) ELSE year,
                       IF wrap THEN Num(1) ELSE month1,
                       Append(rows, row),
                       divisors \o <<prevEquity>> \o dd.divisors)

\* the loop over months; divisors lists every value the loop has divided by
\* (prevEquity for the block return, then the block's running peaks)
RECURSIVE MonthlyLoop(_, _, _, _, _, _, _, _, _, _)
MonthlyLoop(equityPath, rPath, m, nMonths, safeTradesPerMonth, prevEquity, year, month, rows, divisors) ==
  LET nTrades  == Len(equityPath)
      startIdx == Mul(Num(m), safeTradesPerMonth)
      endIdx   == Sub(MathMin(Mul(Num(m + 1), safeTradesPerMonth), Num(nTrades)), Num(1))
      endEquity   == At(equityPath, endIdx)
      returnValue == Sub(Div(endEquity, prevEquity), Num(1))
      dd  == BlockDrawdownLoop(equityPath, startIdx, endIdx, prevEquity, Num(0), <<>>)
      oc  == BlockOutcomeLoop(rPath, startIdx, endIdx,
               [wins |-> 0, losses |-> 0, lossStreak |-> 0, maxLossStreak |-> 0])
      trades  == oc.wins + oc.losses
      winRate == IF trades = 0 THEN Num(0) ELSE Rat(oc.wins, trades)
      row == [year |-> year, month |-> month, returnValue |-> returnValue,
              maxDrawdown |-> dd.minDd, winRate |-> winRate,
              maxConsecutiveLosses |-> Num(oc.maxLossStreak),
              endEquity |-> endEquity]
      month1 == Add(month, Num(1))
      wrap   == StrictEq(month1, Num(13))
  IN  IF ~Lt(Num(m), nMonths) THEN [rows |-> rows, divisors |-> divisors]
      ELSE IF Lt(endIdx, startIdx) THEN [rows |-> rows, divisors |-> divisors]
      ELSE MonthlyLoop(equityPath, rPath, m + 1, nMonths, safeTradesPerMonth,
                       endEquity,
                       IF wrap THEN Add(year, Num(1)) ELSE year,
                       IF wrap THEN Num(1) ELSE month1,
                       Append(rows, row),
                       divisors \o <<prevEquity>> \o dd.divisors)

monthlyStatsRun(equityPath, rPath, startEquity, tradesPerMonth, startYear, startMonth) ==
  LET nTrades == Len(equityPath)
      safeTradesPerMonth == MathMax(Num(1), tradesPerMonth)
      nMonths == MathCeil(Div(Num(nTrades), safeTradesPerMonth))
  IN  MonthlyLoop(equityPath, rPath, 0, nMonths, safeTradesPerMonth,
                  startEquity, startYear, startMonth, <<>>, <<>>)

monthlyStatsFromPath(equityPath, rPath, startEquity, tradesPerMonth, startYear, startMonth) ==
  monthlyStatsRun(equityPath, rPath, startEquity, tradesPerMonth,
                  startYear, startMonth).rows

(***************************************************************************)
(* histogram                                                               *)
(***************************************************************************)
\* Math.min(...values) and Math.max(...values)
RECURSIVE MinOf(_)
MinOf(values) ==
  IF values = <<>> THEN PInf ELSE MathMin(values[1], MinOf(Tail(values)))

RECURSIVE MaxOf(_)
MaxOf(values) ==
  IF values = <<>> THEN NInf ELSE MathMax(values[1], MaxOf(Tail(values)))

\* variant: the bin index without the clamp at binCount - 1
RECURSIVE HistogramCountUnclamped(_, _, _, _, _, _)
HistogramCountUnclamped(values, k, min, span, binCount, counts) ==
  IF k > Len(values) THEN counts
  ELSE LET v   == values[k]
           idx == MathMax(Num(0), MathFloor(Mul(Div(Sub(v, min), span), Num(binCount))))
       IN  HistogramCountUnclamped(values, k + 1, min, span, binCount,
                                   IF IsInteger(idx) /\ idx[1] >= 0 /\ idx[1] < binCount
                                   THEN [counts EXCEPT ![idx[1] + 1] = @ + 1]
                                   ELSE counts)

\* counts[idx] += 1 for every value; an idx that is no index of counts (NaN)
\* sets a property and changes no bin
RECURSIVE HistogramCount(_, _, _, _, _, _)
HistogramCount(values, k, min, span, binCount, counts) ==
  IF k > Len(values) THEN counts
  ELSE LET v   == values[k]
           idx == MathMin(Num(binCount - 1),
                          MathMax(Num(0),
                                  MathFloor(Mul(Div(Sub(v, min), span), Num(binCount)))))
       IN  HistogramCount(values, k + 1, min, span, binCount,
                          IF IsInteger(idx) /\ idx[1] >= 0 /\ idx[1] < binCount
                          THEN [counts EXCEPT ![idx[1] + 1] = @ + 1]
                          ELSE counts)

histogram(values, binCount) ==
  LET min  == MinOf(values)
      max  == MaxOf(values)
      span == OrElse(Sub(max, min), Num(1))
      bins == [i \in 1..binCount |-> Add(min, Div(Mul(Num(i - 1), span), Num(binCount)))]
  IN  [bins |-> bins,
       counts |-> HistogramCount(values, 1, min, span, binCount,
                                 [i \in 1..binCount |-> 0]),
       min |-> min, max |-> max]

(***************************************************************************)
(* runSimulation: the tables built before the path loop                    *)
(***************************************************************************)
\* Math.max(1, Math.trunc(n))
SafeCount(n) == MathMax(Num(1), MathTrunc(n))

\* variant: the weights taken as they come, without the clamp at 0
ProbsUnclamped(buckets) == [i \in 1..Len(buckets) |-> buckets[i].p]

\* buckets.map((b) => Math.max(0, b.p))
Probs(buckets) == [i \in 1..Len(buckets) |-> MathMax(Num(0), buckets[i].p)]

\* values.reduce((acc, p) => acc + p, 0)
RECURSIVE SumSeq(_)
SumSeq(values) ==
  IF values = <<>> THEN Num(0)
  ELSE Add(SumSeq(SubSeq(values, 1, Len(values) - 1)), values[Len(values)])

ProbSum(buckets) == OrElse(SumSeq(Probs(buckets)), Num(1))

NormProbs(buckets) ==
  [i \in 1..Len(buckets) |-> Div(Probs(buckets)[i], ProbSum(buckets))]

\* the running sums of normProbs
RECURSIVE CumProbsOf(_)
CumProbsOf(normProbs) ==
  IF normProbs = <<>> THEN <<>>
  ELSE LET acc  == CumProbsOf(SubSeq(normProbs, 1, Len(normProbs) - 1))
           prev == IF Len(acc) > 0 THEN acc[Len(acc)] ELSE Num(0)
       IN  Append(acc, Add(prev, normProbs[Len(normProbs)]))

CumProbs(buckets) == CumProbsOf(NormProbs(buckets))

\* Math.random: no seed, any value of [0, 1) may come.  The model draws the
\* word r * 2^32 from the three words 0, 2^31 and 2^32 - 1.
RandomWords == {<<0, 0>>, <<32768, 0>>, <<65535, 65535>>}

createRng(seed) ==
  IF ~IsFinite(seed) THEN [seeded |-> FALSE, a |-> <<0, 0>>]
  ELSE [seeded |-> TRUE, a |-> ToWord(MathTrunc(seed)[1])]

\* the generator after one call
RngAdvance(rng) == IF rng.seeded THEN [rng EXCEPT !.a = Mulberry32Advance(@)] ELSE rng

\* the words one call of rng() may return
RngWords(rng) ==
  IF rng.seeded THEN {Mulberry32Output(Mulberry32Advance(rng.a))} ELSE RandomWords

\* the number word / 4294967296, kept to its UnitBits leading binary digits
UnitBits == 2
UnitValue(w) == Rat(w[1] \div (2 ^ (16 - UnitBits)), 2 ^ UnitBits)

\* cumProbs.findIndex((p) => r <= p), 0-based, -1 when there is none
FindIndex(cumProbs, w) ==
  LET hits == {i \in 1..Len(cumProbs) : DrawLe(w, cumProbs[i])}
  IN  IF hits = {} THEN -1 ELSE (CHOOSE i \in hits : \A j \in hits : i <= j) - 1

\* variant: the first bucket taken when no cumulative weight reaches the draw
BucketIndexFirst(buckets, cumProbs, w) ==
  LET idx == FindIndex(cumProbs, w)
  IN  IF idx = -1 THEN 0 ELSE idx

\* the index buckets[...] is read at
BucketIndex(buckets, cumProbs, w) ==
  LET idx == FindIndex(cumProbs, w)
  IN  IF idx = -1 THEN Len(buckets) - 1 ELSE idx

\* variant: a point bucket giving its weight for its value
SampleOfWeight(bucket, w2) ==
  IF bucket.type = "point" THEN Coalesce(bucket.p, Num(0))
  ELSE LET lo == Coalesce(bucket.lo, Num(0))
           hi == Coalesce(bucket.hi, Num(0))
       IN  Add(lo, Mul(Sub(hi, lo), UnitValue(w2)))

\* variant: one call of rng() per trade whatever the bucket
DrawsOfOne(bucket) == 1

\* the calls of rng() one trade makes: the bucket lookup, and for a uniform
\* bucket the interpolation
DrawsOf(bucket) == IF bucket.type = "point" THEN 1 ELSE 2

\* the sample of one trade from bucket and the second draw w2
SampleOf(bucket, w2) ==
  IF bucket.type = "point" THEN Coalesce(bucket.v, Num(0))
  ELSE LET lo == Coalesce(bucket.lo, Num(0))
           hi == Coalesce(bucket.hi, Num(0))
       IN  Add(lo, Mul(Sub(hi, lo), UnitValue(w2)))

\* new Array(n): a RangeError unless n is an integer in 0 .. 2^32 - 1
ArrayLengthOk(n) == IsInteger(n) /\ n[1] >= 0

\* new Float64Array(n): ToIndex turns NaN into 0 and rejects an infinite n
TypedArrayLengthOk(n) == IsNaN(n) \/ (IsFinite(n) /\ n[1] >= 0)
TypedArrayLength(n) == IF IsNaN(n) THEN 0 ELSE MathTrunc(n)[1]

\* variant: the gain added to the equity without compounding
EquityAfterAdditive(equity, currentRisk, sample) ==
  Add(equity, Mul(currentRisk, sample))

\* equity *= 1 + currentRisk * sample
EquityAfter(equity, currentRisk, sample) ==
  Mul(equity, Add(Num(1), Mul(currentRisk, sample)))

\* variant: the streak compared with the threshold as configured
StreakReachedRaw(streak, threshold) == Ge(Num(streak), threshold)

\* Math.max(1, Math.trunc(threshold)) compared with a streak counter
StreakReached(streak, threshold) == Ge(Num(streak), MathMax(Num(1), MathTrunc(threshold)))

\* variant: the halved risk without the floor at minRisk
RiskAfterLossesNoFloor(progressive, currentRisk) == Div(currentRisk, Num(2))

\* the risk after a win streak and after a loss streak
RiskAfterWins(progressive, currentRisk) ==
  MathMin(progressive.maxRisk, Mul(currentRisk, Num(2)))

RiskAfterLosses(progressive, currentRisk) ==
  MathMax(progressive.minRisk, Div(currentRisk, Num(2)))

\* variant: an outcome of 0 leaves both streaks as they are
ProgressiveStepZeroKeeps(progressive, sample, currentRisk, winStreak, lossStreak) ==
  IF ~progressive.enabled
  THEN [risk |-> currentRisk, win |-> winStreak, loss |-> lossStreak, adj |-> "none"]
  ELSE IF Gt(sample, Num(0))
  THEN IF StreakReached(winStreak + 1, progressive.winStreakThreshold)
       THEN [risk |-> RiskAfterWins(progressive, currentRisk),
             win |-> 0, loss |-> 0, adj |-> "win"]
       ELSE [risk |-> currentRisk, win |-> winStreak + 1, loss |-> 0, adj |-> "none"]
  ELSE IF Lt(sample, Num(0))
  THEN IF StreakReached(lossStreak + 1, progressive.lossStreakThreshold)
       THEN [risk |-> RiskAfterLosses(progressive, currentRisk),
             win |-> 0, loss |-> 0, adj |-> "loss"]
       ELSE [risk |-> currentRisk, win |-> 0, loss |-> lossStreak + 1, adj |-> "none"]
  ELSE [risk |-> currentRisk, win |-> winStreak, loss |-> lossStreak, adj |-> "none"]

\* the progressive block of one trade: the next (currentRisk, winStreak, lossStreak)
ProgressiveStep(progressive, sample, currentRisk, winStreak, lossStreak) ==
  IF ~progressive.enabled
  THEN [risk |-> currentRisk, win |-> winStreak, loss |-> lossStreak, adj |-> "none"]
  ELSE IF Gt(sample, Num(0))
  THEN IF StreakReached(winStreak + 1, progressive.winStreakThreshold)
       THEN [risk |-> RiskAfterWins(progressive, currentRisk),
             win |-> 0, loss |-> 0, adj |-> "win"]
       ELSE [risk |-> currentRisk, win |-> winStreak + 1, loss |-> 0, adj |-> "none"]
  ELSE IF Lt(sample, Num(0))
  THEN IF StreakReached(lossStreak + 1, progressive.lossStreakThreshold)
       THEN [risk |-> RiskAfterLosses(progressive, currentRisk),
             win |-> 0, loss |-> 0, adj |-> "loss"]
       ELSE [risk |-> currentRisk, win |-> 0, loss |-> lossStreak + 1, adj |-> "none"]
  ELSE [risk |-> currentRisk, win |-> 0, loss |-> 0, adj |-> "none"]

(***************************************************************************)
(* runSimulation: the aggregation after the path loop                      *)
(***************************************************************************)
\* variant: the best and worst path taken at their last occurrence
RECURSIVE SelectLoopLastOccurrence(_, _, _, _)
SelectLoopLastOccurrence(finalEquity, medianValue, i, acc) ==
  IF i >= Len(finalEquity) THEN acc
  ELSE LET value    == finalEquity[i + 1]
           distance == MathAbs(Sub(value, medianValue))
           a1 == IF Ge(value, acc.bestValue)
                 THEN [acc EXCEPT !.bestValue = value, !.bestIdx = i] ELSE acc
           a2 == IF Le(value, a1.worstValue)
                 THEN [a1 EXCEPT !.worstValue = value, !.worstIdx = i] ELSE a1
           a3 == IF Lt(distance, a2.closest)
                 THEN [a2 EXCEPT !.closest = distance, !.medianIdx = i] ELSE a2
       IN  SelectLoopLastOccurrence(finalEquity, medianValue, i + 1, a3)

\* the scan for the best, worst and median path
RECURSIVE SelectLoop(_, _, _, _)
SelectLoop(finalEquity, medianValue, i, acc) ==
  IF i >= Len(finalEquity) THEN acc
  ELSE LET value    == finalEquity[i + 1]
           distance == MathAbs(Sub(value, medianValue))
           a1 == IF Gt(value, acc.bestValue)
                 THEN [acc EXCEPT !.bestValue = value, !.bestIdx = i] ELSE acc
           a2 == IF Lt(value, a1.worstValue)
                 THEN [a1 EXCEPT !.worstValue = value, !.worstIdx = i] ELSE a1
           a3 == IF Lt(distance, a2.closest)
                 THEN [a2 EXCEPT !.closest = distance, !.medianIdx = i] ELSE a2
       IN  SelectLoop(finalEquity, medianValue, i + 1, a3)

\* variant: the median path chosen by the signed distance to the median value
RECURSIVE SelectLoopSigned(_, _, _, _)
SelectLoopSigned(finalEquity, medianValue, i, acc) ==
  IF i >= Len(finalEquity) THEN acc
  ELSE LET value    == finalEquity[i + 1]
           distance == Sub(value, medianValue)
           a1 == IF Gt(value, acc.bestValue)
                 THEN [acc EXCEPT !.bestValue = value, !.bestIdx = i] ELSE acc
           a2 == IF Lt(value, a1.worstValue)
                 THEN [a1 EXCEPT !.worstValue = value, !.worstIdx = i] ELSE a1
           a3 == IF Lt(distance, a2.closest)
                 THEN [a2 EXCEPT !.closest = distance, !.medianIdx = i] ELSE a2
       IN  SelectLoopSigned(finalEquity, medianValue, i + 1, a3)

SelectPathsSigned(finalEquity, medianValue) ==
  SelectLoopSigned(finalEquity, medianValue, 0,
                   [medianIdx |-> 0, bestIdx |-> 0, worstIdx |-> 0,
                    bestValue |-> NInf, worstValue |-> PInf, closest |-> PInf])

SelectPaths(finalEquity, medianValue) ==
  SelectLoop(finalEquity, medianValue, 0,
             [medianIdx |-> 0, bestIdx |-> 0, worstIdx |-> 0,
              bestValue |-> NInf, worstValue |-> PInf, closest |-> PInf])

\* histogram(maxDrawdowns, 60), histogram(finalEquity, 60)
HistogramBins == 60

\* an array after the three percentile calls made on it
AfterPercentiles(values) ==
  percentileLeaves(percentileLeaves(percentileLeaves(values, Num(5)), Num(50)), Num(95))

\* everything runSimulation computes once the paths are simulated; the
\* selection, the histograms and the result read the arrays as the percentile
\* calls left them
Aggregation(cfg, equityPaths, rPaths, finalEquityIn, maxDrawdownsIn, maxConsecutiveLossesIn, equityMin, equityMax) ==
  LET finalEquity  == AfterPercentiles(finalEquityIn)
      maxDrawdowns == AfterPercentiles(maxDrawdownsIn)
      maxConsecutiveLossesAll == AfterPercentiles(maxConsecutiveLossesIn)
      final50 == percentile(finalEquity, Num(50))
      sel     == SelectPaths(finalEquity, final50)
      eq(i)   == equityPaths[i + 1]
      monthly(i) == monthlyStatsFromPath(eq(i), rPaths[i + 1], cfg.startEquity,
                      cfg.tradesPerMonth, cfg.startYear, cfg.startMonth)
  IN  [equityPaths |-> equityPaths,
       rPaths |-> rPaths,
       finalEquity |-> finalEquity,
       maxDrawdowns |-> maxDrawdowns,
       medianIdx |-> sel.medianIdx,
       bestIdx |-> sel.bestIdx,
       worstIdx |-> sel.worstIdx,
       equityMin |-> equityMin,
       equityMax |-> equityMax,
       stats |-> [final5 |-> percentile(finalEquity, Num(5)),
                  final50 |-> final50,
                  final95 |-> percentile(finalEquity, Num(95)),
                  dd5 |-> percentile(maxDrawdowns, Num(5)),
                  dd50 |-> percentile(maxDrawdowns, Num(50)),
                  dd95 |-> percentile(maxDrawdowns, Num(95)),
                  mcl5 |-> percentile(maxConsecutiveLossesAll, Num(5)),
                  mcl50 |-> percentile(maxConsecutiveLossesAll, Num(50)),
                  mcl95 |-> percentile(maxConsecutiveLossesAll, Num(95))],
       drawdowns |-> [median |-> drawdownSeries(eq(sel.medianIdx)),
                      best |-> drawdownSeries(eq(sel.bestIdx)),
                      worst |-> drawdownSeries(eq(sel.worstIdx))],
       maxConsecutiveLosses |->
         [median |-> maxConsecutiveLossesAll[sel.medianIdx + 1],
          best |-> maxConsecutiveLossesAll[sel.bestIdx + 1],
          worst |-> maxConsecutiveLossesAll[sel.worstIdx + 1]],
       monthlyTables |-> [median |-> monthly(sel.medianIdx),
                          best |-> monthly(sel.bestIdx),
                          worst |-> monthly(sel.worstIdx)],
       histograms |-> [drawdown |-> histogram(maxDrawdowns, HistogramBins),
                       finalEquity |-> histogram(finalEquity, HistogramBins)]]

(***************************************************************************)
(* Configurations                                                          *)
(***************************************************************************)
BaseTrades == 3
BasePaths == 2
StreakTrades == 4
MaxRuns == 2

Point(p, v) == [p |-> p, type |-> "point", lo |-> Undefined, hi |-> Undefined, v |-> v]
Uniform(p, lo, hi) == [p |-> p, type |-> "uniform", lo |-> lo, hi |-> hi, v |-> Undefined]

BLoss == <<Point(Num(1), Num(-1))>>
BZero == <<Point(Num(1), Num(0))>>
BSigns == <<Point(Num(1), Num(-1)), Point(Num(1), Num(0)), Point(Num(1), Num(1))>>
BMixed == <<Point(<<1, 2>>, Num(-1)), Point(<<1, 2>>, Num(2))>>
BUniform == <<Uniform(Num(1), Num(-1), Num(0)), Point(Num(1), Num(-1)),
              Uniform(Num(2), Num(0), Num(2))>>
BNegWeight == <<Point(Num(2), Num(-1)), Point(Num(-1), Num(1)), Point(Num(2), Num(1))>>
BAllZero == <<Point(Num(0), Num(1)), Point(Num(0), Num(-1))>>
BAllNeg == <<Point(Num(-1), Num(1)), Point(<<-1, 2>>, Num(-1))>>
BMissing == <<Point(Num(1), Undefined), Uniform(Num(1), Undefined, Undefined),
              Uniform(Num(1), Undefined, Num(1))>>
BEmpty == <<>>
BLeadZero == <<Point(Num(0), Num(1)), Point(Num(1), Num(-1))>>

BucketLists ==
  {BLoss, BZero, BSigns, BMixed, BUniform, BNegWeight, BAllZero, BAllNeg, BMissing, BEmpty,
   BLeadZero}

ProgressiveOff ==
  [enabled |-> FALSE, lossStreakThreshold |-> Num(0), winStreakThreshold |-> Num(0),
   minRisk |-> Num(0), maxRisk |-> Num(0)]

Progressive(lossThr, winThr, minRisk, maxRisk) ==
  [enabled |-> TRUE, lossStreakThreshold |-> lossThr, winStreakThreshold |-> winThr,
   minRisk |-> minRisk, maxRisk |-> maxRisk]

BaseConfig ==
  [startEquity |-> Num(100), nTrades |-> Num(BaseTrades), nPaths |-> Num(BasePaths),
   riskFraction |-> <<1, 4>>, seed |-> Num(25), tradesPerMonth |-> Num(2),
   startYear |-> Num(2024), startMonth |-> Num(11), buckets |-> BMixed,
   progressive |-> ProgressiveOff, runs |-> 1, morePaths |-> 0]

\* values a trade or path count may arrive with
CountInputs ==
  {Num(-1), Num(0), Num(1), Num(2), <<5, 2>>, <<-1, 2>>, NaN, PInf, NInf}

\* values tradesPerMonth may arrive with
TradesPerMonthInputs ==
  {Num(-1), Num(0), Num(1), Num(2), Num(3), <<3, 2>>, <<5, 2>>, Num(50), NaN, PInf}

\* the same configuration run MaxRuns times, with and without a seed
RerunConfigs ==
  {[BaseConfig EXCEPT !.seed = sd, !.buckets = b, !.progressive = pr, !.runs = MaxRuns] :
     sd \in {Num(25), Num(7), Num(-1), <<51, 2>>},
     b \in {BMixed, BUniform, BSigns},
     pr \in {ProgressiveOff, Progressive(Num(1), Num(2), <<1, 8>>, <<1, 2>>)}}
  \cup
  {[BaseConfig EXCEPT !.seed = sd, !.nTrades = Num(1), !.nPaths = Num(1),
                      !.runs = MaxRuns] : sd \in {Null, NaN}}

\* every bucket list, with and without a seed
BucketConfigs ==
  {[BaseConfig EXCEPT !.buckets = b, !.seed = sd, !.nTrades = Num(2), !.nPaths = np] :
     b \in BucketLists, sd \in {Num(25), Null}, np \in {Num(1)}}

\* every trade and path count
CountConfigs ==
  {[BaseConfig EXCEPT !.nTrades = nt, !.nPaths = np] :
     nt \in CountInputs, np \in CountInputs}

\* progressive exposure over every sign sequence of StreakTrades trades
ProgressiveConfigs ==
  {[BaseConfig EXCEPT !.seed = Null, !.buckets = b, !.nTrades = Num(StreakTrades),
                      !.nPaths = Num(1), !.startEquity = Num(16), !.riskFraction = rf,
                      !.progressive = Progressive(lt, wt, mn, mx)] :
     b \in {BSigns}, rf \in {<<1, 8>>, <<1, 4>>, Num(1)},
     lt \in {Num(-1), Num(0), Num(1), Num(2)}, wt \in {Num(1), <<5, 2>>},
     mn \in {<<-1, 8>>, <<1, 4>>}, mx \in {<<1, 2>>}}
  \cup
  {[BaseConfig EXCEPT !.buckets = BLoss, !.nTrades = Num(StreakTrades),
                      !.startEquity = Num(16), !.riskFraction = rf,
                      !.progressive = Progressive(Num(1), Num(1), mn, mx)] :
     rf \in {<<1, 8>>, <<1, 4>>, Num(1), <<-1, 4>>},
     mn \in {<<-1, 8>>, Num(0), <<1, 4>>}, mx \in {<<1, 4>>, <<1, 2>>}}

\* every tradesPerMonth value, with risk fractions that bring the equity to zero
MonthlyConfigs ==
  {[BaseConfig EXCEPT !.tradesPerMonth = tpm, !.nTrades = nt, !.riskFraction = rf,
                      !.buckets = b, !.startMonth = sm] :
     tpm \in TradesPerMonthInputs, nt \in {Num(BaseTrades), Num(BaseTrades + 1)},
     rf \in {<<1, 4>>, Num(1)}, b \in {BMixed, BLoss}, sm \in {Num(11)}}

\* one row per trade, from every part of the year
CalendarConfigs ==
  {[BaseConfig EXCEPT !.buckets = BLoss, !.nPaths = Num(1), !.tradesPerMonth = Num(1),
                      !.startMonth = sm] :
     sm \in {Num(1), Num(6), Num(10), Num(12)}}

\* a run, the path count raised by morePaths, and a run again
GrowConfigs ==
  {[BaseConfig EXCEPT !.seed = sd, !.buckets = b, !.nPaths = np, !.morePaths = k,
                      !.progressive = pr] :
     sd \in {Num(25), Num(7)}, b \in {BMixed, BUniform}, np \in {Num(1), Num(BasePaths)},
     k \in {1, 2},
     pr \in {ProgressiveOff, Progressive(Num(1), Num(2), <<1, 8>>, <<1, 2>>)}}

\* the single point bucket of value 0, with and without progressive exposure
ZeroConfigs ==
  {[BaseConfig EXCEPT !.buckets = BZero, !.progressive = pr] :
     pr \in {ProgressiveOff, Progressive(Num(1), Num(1), <<1, 8>>, <<1, 2>>)}}

Configs ==
  RerunConfigs \cup BucketConfigs \cup CountConfigs \cup ProgressiveConfigs
  \cup MonthlyConfigs \cup ZeroConfigs \cup CalendarConfigs \cup GrowConfigs

(***************************************************************************)
(* State                                                                   *)
(***************************************************************************)
VARIABLES
  cfg,          \* the configuration handleRun passes to runSimulation
  pc,           \* "idle", "path", "trade", "done", "threw"
  pressed,      \* how many times Run was pressed since the configuration was edited
  results,      \* the results returned since then, one per completed run
  previous,     \* history: the last result returned before the edit, if any
  error,        \* the exception of the last run, "none" when it returned
  safeTrades, safePaths, normProbs, cumProbs, rng,
  draws,        \* calls of rng() in this run
  kinds,        \* history: the kind of the bucket picked by each trade of this run
  equityPaths, rPaths, finalEquity, maxDrawdowns, maxConsecutiveLossesAll,
  equityMin, equityMax,
  path, t, equity, currentRisk, lossStreak, winStreak, peak, minDd,
  equityPath, rPath,
  riskPath,     \* history: the risk fraction applied to each trade of this path
  riskPaths,    \* history: riskPath of every finished path
  adj,          \* history: the last trade's risk adjustment [kind, before, after]
  input,        \* the array a primitive is called on directly
  applied,      \* the primitive that was called on input, "none" before the call
  output        \* what the call returned

(***************************************************************************)
(* Tuples of variables, initial state and steps                            *)
(***************************************************************************)
runVars == <<safeTrades, safePaths, normProbs, cumProbs, rng, draws, kinds, equityPaths, rPaths,
             finalEquity, maxDrawdowns, maxConsecutiveLossesAll, equityMin,
             equityMax, riskPaths>>
pathVars == <<path, t, equity, currentRisk, lossStreak, winStreak, peak, minDd,
              equityPath, rPath, riskPath, adj>>
callVars == <<input, applied, output>>
vars == <<cfg, pc, pressed, results, previous, error, runVars, pathVars, callVars>>

NoAdj == [kind |-> "none", before |-> Num(0), after |-> Num(0)]

\* nothing has run yet
Idle ==
  /\ pc = "idle"
  /\ pressed = 0
  /\ results = <<>>
  /\ previous = <<>>
  /\ error = "none"
  /\ safeTrades = Num(0) /\ safePaths = Num(0)
  /\ normProbs = <<>> /\ cumProbs = <<>>
  /\ rng = [seeded |-> FALSE, a |-> <<0, 0>>]
  /\ draws = 0 /\ kinds = <<>>
  /\ equityPaths = <<>> /\ rPaths = <<>> /\ riskPaths = <<>>
  /\ finalEquity = <<>> /\ maxDrawdowns = <<>> /\ maxConsecutiveLossesAll = <<>>
  /\ equityMin = PInf /\ equityMax = NInf
  /\ path = 0 /\ t = 0 /\ equity = Num(0) /\ currentRisk = Num(0)
  /\ lossStreak = 0 /\ winStreak = 0 /\ peak = Num(0) /\ minDd = Num(0)
  /\ equityPath = <<>> /\ rPath = <<>> /\ riskPath = <<>>
  /\ adj = NoAdj

Init ==
  /\ cfg \in Configs
  /\ Idle
  /\ input = <<>> /\ applied = "none" /\ output = <<>>

\* variant: the generator seeded with the seed plus the path count
RunRngByPathCount(seed) == createRng(Add(Coalesce(seed, Undefined), cfg.nPaths))

\* variant: one generator kept across runs instead of one per run
RunRngShared(seed) ==
  IF pressed = 0 THEN createRng(Coalesce(seed, Undefined)) ELSE rng

\* const rng = createRng(seed ?? undefined): a generator of its own for every run
RunRng(seed) == createRng(Coalesce(seed, Undefined))

\* handleRun calls runSimulation: the tables and arrays built before the path loop
handleRun ==
  /\ UNCHANGED callVars
  /\ pc \in {"idle", "done", "threw"}
  /\ pressed < cfg.runs
  /\ pressed' = pressed + 1
  /\ safeTrades' = SafeCount(cfg.nTrades)
  /\ safePaths' = SafeCount(cfg.nPaths)
  /\ normProbs' = NormProbs(cfg.buckets)
  /\ cumProbs' = CumProbs(cfg.buckets)
  /\ rng' = RunRng(cfg.seed)
  /\ draws' = 0 /\ kinds' = <<>>
  /\ equityMin' = PInf /\ equityMax' = NInf
  /\ path' = 0 /\ t' = 0
  /\ riskPaths' = <<>>
  /\ IF ArrayLengthOk(SafeCount(cfg.nPaths))
     THEN LET n == SafeCount(cfg.nPaths)[1]
          IN  /\ equityPaths' = [i \in 1..n |-> <<>>]
              /\ rPaths' = [i \in 1..n |-> <<>>]
              /\ finalEquity' = [i \in 1..n |-> Num(0)]
              /\ maxDrawdowns' = [i \in 1..n |-> Num(0)]
              /\ maxConsecutiveLossesAll' = [i \in 1..n |-> Num(0)]
              /\ pc' = "path" /\ error' = "none"
     ELSE /\ pc' = "threw" /\ error' = "RangeError"
          /\ equityPaths' = <<>> /\ rPaths' = <<>> /\ finalEquity' = <<>>
          /\ maxDrawdowns' = <<>> /\ maxConsecutiveLossesAll' = <<>>
  /\ UNCHANGED <<cfg, previous, results, equity, currentRisk, lossStreak, winStreak, peak,
                 minDd, equityPath, rPath, riskPath, adj>>

\* variant: the risk and the streaks carried over from the previous path
PathBeginCarriesOver ==
  /\ UNCHANGED callVars
  /\ pc = "path"
  /\ Lt(Num(path), safePaths)
  /\ IF TypedArrayLengthOk(safeTrades)
     THEN /\ equityPath' = [i \in 1..TypedArrayLength(safeTrades) |-> Num(0)]
          /\ rPath' = [i \in 1..TypedArrayLength(safeTrades) |-> Num(0)]
          /\ pc' = "trade" /\ error' = error
     ELSE /\ pc' = "threw" /\ error' = "RangeError"
          /\ UNCHANGED <<equityPath, rPath>>
  /\ equity' = cfg.startEquity
  /\ currentRisk' = (IF path = 0 THEN cfg.riskFraction ELSE currentRisk)
  /\ lossStreak' = (IF path = 0 THEN 0 ELSE lossStreak)
  /\ winStreak' = (IF path = 0 THEN 0 ELSE winStreak)
  /\ peak' = cfg.startEquity
  /\ minDd' = Num(0)
  /\ t' = 0
  /\ riskPath' = <<>>
  /\ adj' = NoAdj
  /\ UNCHANGED <<cfg, previous, pressed, results, path, runVars>>

\* the head of the path loop: the per-path arrays and locals
PathBegin ==
  /\ UNCHANGED callVars
  /\ pc = "path"
  /\ Lt(Num(path), safePaths)
  /\ IF TypedArrayLengthOk(safeTrades)
     THEN /\ equityPath' = [i \in 1..TypedArrayLength(safeTrades) |-> Num(0)]
          /\ rPath' = [i \in 1..TypedArrayLength(safeTrades) |-> Num(0)]
          /\ pc' = "trade" /\ error' = error
     ELSE /\ pc' = "threw" /\ error' = "RangeError"
          /\ UNCHANGED <<equityPath, rPath>>
  /\ equity' = cfg.startEquity
  /\ currentRisk' = cfg.riskFraction
  /\ lossStreak' = 0 /\ winStreak' = 0
  /\ peak' = cfg.startEquity
  /\ minDd' = Num(0)
  /\ t' = 0
  /\ riskPath' = <<>>
  /\ adj' = NoAdj
  /\ UNCHANGED <<cfg, previous, pressed, results, path, runVars>>

\* one iteration of the trade loop
Trade ==
  /\ UNCHANGED callVars
  /\ pc = "trade"
  /\ Lt(Num(t), safeTrades)
  /\ \E w1 \in RngWords(rng) :
       LET idx == BucketIndex(cfg.buckets, cumProbs, w1) IN
       IF idx < 0 \/ idx >= Len(cfg.buckets)
       THEN \* bucket is undefined: reading bucket.type throws
            /\ pc' = "threw" /\ error' = "TypeError"
            /\ rng' = RngAdvance(rng) /\ draws' = draws + 1
            /\ UNCHANGED <<cfg, previous, pressed, results, safeTrades, safePaths, normProbs, cumProbs, kinds,
                           equityPaths, rPaths, finalEquity, maxDrawdowns,
                           maxConsecutiveLossesAll, equityMin, equityMax, riskPaths,
                           pathVars>>
       ELSE LET bucket  == cfg.buckets[idx + 1]
                isPoint == bucket.type = "point"
                rng1    == RngAdvance(rng)
            IN  \E w2 \in (IF isPoint THEN {w1} ELSE RngWords(rng1)) :
                  LET sample == SampleOf(bucket, w2)
                      eq1    == EquityAfter(equity, currentRisk, sample)
                      pk     == IF Gt(eq1, peak) THEN eq1 ELSE peak
                      dd     == Sub(Div(eq1, pk), Num(1))
                      pg     == ProgressiveStep(cfg.progressive, sample, currentRisk,
                                                winStreak, lossStreak)
                  IN  /\ rng' = (IF DrawsOf(bucket) = 1 THEN rng1 ELSE RngAdvance(rng1))
                      /\ draws' = draws + DrawsOf(bucket)
                      /\ kinds' = Append(kinds, bucket.type)
                      /\ rPath' = [rPath EXCEPT ![t + 1] = sample]
                      /\ equity' = eq1
                      /\ equityPath' = [equityPath EXCEPT ![t + 1] = eq1]
                      /\ riskPath' = Append(riskPath, currentRisk)
                      /\ peak' = pk
                      /\ minDd' = (IF Lt(dd, minDd) THEN dd ELSE minDd)
                      /\ currentRisk' = pg.risk
                      /\ winStreak' = pg.win
                      /\ lossStreak' = pg.loss
                      /\ adj' = [kind |-> pg.adj, before |-> currentRisk, after |-> pg.risk]
                      /\ t' = t + 1
                      /\ UNCHANGED <<cfg, previous, pc, pressed, results, error, path, safeTrades,
                                     safePaths, normProbs, cumProbs, equityPaths, rPaths,
                                     finalEquity, maxDrawdowns, maxConsecutiveLossesAll,
                                     equityMin, equityMax, riskPaths>>

\* the equityMin / equityMax scan over one path
RECURSIVE MinMaxLoop(_, _, _)
MinMaxLoop(series, i, acc) ==
  IF i >= Len(series) THEN acc
  ELSE LET value == series[i + 1]
           a1 == IF Lt(value, acc.min) THEN [acc EXCEPT !.min = value] ELSE acc
           a2 == IF Gt(value, a1.max) THEN [a1 EXCEPT !.max = value] ELSE a1
       IN  MinMaxLoop(series, i + 1, a2)

\* the tail of the path loop: the path and its scalars are stored
PathEnd ==
  /\ UNCHANGED callVars
  /\ pc = "trade"
  /\ ~Lt(Num(t), safeTrades)
  /\ LET mm == MinMaxLoop(equityPath, 0, [min |-> equityMin, max |-> equityMax])
     IN  equityMin' = mm.min /\ equityMax' = mm.max
  /\ equityPaths' = [equityPaths EXCEPT ![path + 1] = equityPath]
  /\ rPaths' = [rPaths EXCEPT ![path + 1] = rPath]
  /\ riskPaths' = Append(riskPaths, riskPath)
  /\ finalEquity' = [finalEquity EXCEPT
                       ![path + 1] = Coalesce(At(equityPath, Sub(safeTrades, Num(1))), equity)]
  /\ maxDrawdowns' = [maxDrawdowns EXCEPT ![path + 1] = minDd]
  /\ maxConsecutiveLossesAll' =
       [maxConsecutiveLossesAll EXCEPT ![path + 1] = maxConsecutiveLosses(rPath)]
  /\ path' = path + 1
  /\ pc' = "path"
  /\ UNCHANGED <<cfg, previous, pressed, results, error, safeTrades, safePaths, normProbs, cumProbs, rng,
                 draws, kinds, t, equity, currentRisk, lossStreak, winStreak, peak, minDd,
                 equityPath, rPath, riskPath, adj>>

\* after the path loop: the statistics, and runSimulation returns
Aggregate ==
  /\ UNCHANGED callVars
  /\ pc = "path"
  /\ ~Lt(Num(path), safePaths)
  /\ results' = Append(results,
                       Aggregation(cfg, equityPaths, rPaths, finalEquity, maxDrawdowns,
                                   maxConsecutiveLossesAll, equityMin, equityMax))
  /\ finalEquity' = AfterPercentiles(finalEquity)
  /\ maxDrawdowns' = AfterPercentiles(maxDrawdowns)
  /\ maxConsecutiveLossesAll' = AfterPercentiles(maxConsecutiveLossesAll)
  /\ pc' = "done"
  /\ UNCHANGED <<cfg, previous, pressed, error, pathVars>>
  /\ UNCHANGED <<safeTrades, safePaths, normProbs, cumProbs, rng, draws, kinds, equityPaths,
                 rPaths, equityMin, equityMax, riskPaths>>

\* the path count edited after a run: setNPaths(parseNumber(e.target.value)).
\* results and pressed count the runs of the configuration as it stands, and
\* previous keeps the last result returned before the edit.
setNPaths ==
  /\ UNCHANGED callVars
  /\ pc = "done"
  /\ cfg.morePaths > 0
  /\ cfg' = [cfg EXCEPT !.nPaths = Add(@, Num(cfg.morePaths)), !.morePaths = 0]
  /\ previous' = <<results[Len(results)]>>
  /\ results' = <<>>
  /\ pressed' = 0
  /\ pc' = "idle"
  /\ UNCHANGED <<error, runVars, pathVars>>

Next == handleRun \/ PathBegin \/ Trade \/ PathEnd \/ Aggregate \/ setNPaths

Spec == Init /\ [][Next]_vars

(***************************************************************************)
(* The primitives called directly on arrays of numbers                     *)
(***************************************************************************)
MaxLen == 4
MaxBins == 3

\* the numbers the arrays are made of
CallValues == {Num(-1), Num(0), <<1, 2>>, Num(1), Num(2)}

\* every array of at most MaxLen of them, in every order
NumberLists == UNION {[1..n -> CallValues] : n \in 0..MaxLen}

\* the ranks percentile is asked for
Percents == {Num(0), Num(5), Num(25), Num(50), Num(75), Num(95), Num(100)}

\* the words rng() * 2^32 a bucket is looked up with: 0, 1/4, 1/2, 3/4 and the
\* largest draw
DrawWords == RandomWords \cup {<<16384, 0>>, <<49152, 0>>}

simVars == <<cfg, pc, pressed, results, previous, error, runVars, pathVars>>

CallInit ==
  /\ cfg = BaseConfig
  /\ Idle
  /\ input \in NumberLists
  /\ applied = "none" /\ output = <<>>

\* percentile(input, p) for every rank p
callPercentile ==
  /\ applied = "none"
  /\ applied' = "percentile"
  /\ output' = [p \in Percents |-> percentile(input, p)]
  /\ UNCHANGED <<input, simVars>>

\* the selection of the median, best and worst path with input as finalEquity
\* (one entry per path, so at least one)
callSelect ==
  /\ applied = "none"
  /\ Len(input) >= 1
  /\ applied' = "select"
  /\ output' = LET final50 == percentile(input, Num(50))
                   sel     == SelectPaths(input, final50)
               IN  [final50 |-> final50, medianIdx |-> sel.medianIdx,
                    bestIdx |-> sel.bestIdx, worstIdx |-> sel.worstIdx]
  /\ UNCHANGED <<input, simVars>>

\* maxDrawdown(input)
callMaxDrawdown ==
  /\ applied = "none"
  /\ applied' = "maxDrawdown"
  /\ output' = maxDrawdown(input)
  /\ UNCHANGED <<input, simVars>>

\* histogram(input, binCount)
callHistogram ==
  /\ applied = "none"
  /\ Len(input) >= 1
  /\ \E binCount \in (1..MaxBins) \cup {HistogramBins} :
       output' = [binCount |-> binCount, histogram |-> histogram(input, binCount)]
  /\ applied' = "histogram"
  /\ UNCHANGED <<input, simVars>>

\* the bucket lookup of one trade, for a bucket list and a first draw
callSample ==
  /\ applied = "none"
  /\ input = <<>>
  /\ \E buckets \in BucketLists, w \in DrawWords :
       output' = [buckets |-> buckets, cumProbs |-> CumProbs(buckets), w |-> w,
                  idx |-> BucketIndex(buckets, CumProbs(buckets), w)]
  /\ applied' = "sample"
  /\ UNCHANGED <<input, simVars>>

CallNext == callPercentile \/ callSelect \/ callMaxDrawdown \/ callHistogram \/ callSample

CallSpec == CallInit /\ [][CallNext]_vars

(***************************************************************************)
(* Properties                                                              *)
(***************************************************************************)
Returned == pc = "done"
LastResult == results[Len(results)]

\* C1: with a finite seed, every run of the same configuration returns the
\* same equity and outcome series for every path, hence the same finalEquity
\* and the same medianIdx, bestIdx and worstIdx.
C1_SeededRunsIdentical ==
  IsFinite(cfg.seed) =>
    \A i, j \in 1..Len(results) :
      /\ results[i].equityPaths = results[j].equityPaths
      /\ results[i].rPaths = results[j].rPaths
      /\ results[i].finalEquity = results[j].finalEquity
      /\ results[i].medianIdx = results[j].medianIdx
      /\ results[i].bestIdx = results[j].bestIdx
      /\ results[i].worstIdx = results[j].worstIdx

\* two runs with a finite seed have returned, and the draws were not all alike:
\* the two paths of a run differ
C1_Witness ==
  /\ IsFinite(cfg.seed)
  /\ Len(results) >= 2
  /\ Len(results[1].rPaths) >= 2
  /\ results[1].rPaths[1] # results[1].rPaths[2]
  /\ results[1].finalEquity[1] # results[1].finalEquity[2]

NonDecreasing(values) ==
  \A i \in 1..Len(values) - 1 : Le(values[i], values[i + 1])

SomePositiveWeight == \E i \in 1..Len(cfg.buckets) : Gt(cfg.buckets[i].p, Num(0))

\* C2 as claimed: for every non-empty bucket list the normalized probabilities
\* sum to 1 and the cumulative table is non-decreasing and ends at 1.
C2_AlwaysSumsToOne ==
  (pressed > 0 /\ Len(cfg.buckets) > 0) =>
    /\ SumSeq(normProbs) = Num(1)
    /\ NonDecreasing(cumProbs)
    /\ cumProbs[Len(cumProbs)] = Num(1)

\* C2 as amended: for every non-empty bucket list the cumulative table is
\* non-decreasing; with at least one positive weight the normalized
\* probabilities sum to 1 and the table ends at 1; with no positive weight
\* every normalized probability is 0 and the table ends at 0.
C2_SumsToOneWhenSomeWeightPositive ==
  (pressed > 0 /\ Len(cfg.buckets) > 0) =>
    /\ Len(normProbs) = Len(cfg.buckets)
    /\ Len(cumProbs) = Len(cfg.buckets)
    /\ NonDecreasing(cumProbs)
    /\ \A i \in 1..Len(normProbs) : Ge(normProbs[i], Num(0))
    /\ IF SomePositiveWeight
       THEN SumSeq(normProbs) = Num(1) /\ cumProbs[Len(cumProbs)] = Num(1)
       ELSE /\ \A i \in 1..Len(normProbs) : normProbs[i] = Num(0)
            /\ cumProbs[Len(cumProbs)] = Num(0)

\* the table was built from a list that mixes a negative weight with positive ones
C2_Witness ==
  /\ pressed > 0
  /\ SomePositiveWeight
  /\ \E i \in 1..Len(cfg.buckets) : Lt(cfg.buckets[i].p, Num(0))
  /\ Len(cumProbs) = Len(cfg.buckets)

\* the first n entries of an equity series follow the recurrence
\* equity[k] = equity[k - 1] * (1 + risk[k] * outcome[k]), equity[-1] = startEquity
FollowsRecurrence(eqs, rs, risks, n) ==
  /\ Len(risks) = n
  /\ \A k \in 1..n :
       eqs[k] = Mul(IF k = 1 THEN cfg.startEquity ELSE eqs[k - 1],
                    Add(Num(1), Mul(risks[k], rs[k])))
  /\ n > 0 => risks[1] = cfg.riskFraction
  /\ ~cfg.progressive.enabled => \A k \in 1..n : risks[k] = cfg.riskFraction

\* C3: in every path, finished or under way, the equity recorded after trade t
\* is the equity before it times (1 + risk_t * outcome_t), with the risk in
\* force before the trade's streak update (the base riskFraction when
\* progressive exposure is off) and startEquity before trade 0.
C3_EquityRecurrence ==
  /\ pc = "trade" => FollowsRecurrence(equityPath, rPath, riskPath, t)
  /\ \A i \in 1..Len(riskPaths) :
       FollowsRecurrence(equityPaths[i], rPaths[i], riskPaths[i], Len(equityPaths[i]))

\* a run has returned a path whose risk changed on the way and whose equity moved
C3_Witness ==
  /\ Returned
  /\ cfg.progressive.enabled
  /\ \E i \in 1..Len(riskPaths) :
       /\ Len(riskPaths[i]) >= 3
       /\ riskPaths[i][1] # riskPaths[i][2]
       /\ riskPaths[i][2] # riskPaths[i][3]
       /\ equityPaths[i][2] # equityPaths[i][3]

\* C4 as claimed: whatever nTrades and nPaths are, both are coerced to an
\* integer >= 1, no RangeError is raised, and the result holds that many paths
\* of that many trades each.
C4_CountsCoerced ==
  pressed > 0 =>
    /\ error # "RangeError"
    /\ IsInteger(safeTrades) /\ safeTrades[1] >= 1
    /\ IsInteger(safePaths) /\ safePaths[1] >= 1
    /\ Returned =>
         /\ Len(LastResult.equityPaths) = safePaths[1]
         /\ \A i \in 1..Len(LastResult.equityPaths) :
              /\ Len(LastResult.equityPaths[i]) = safeTrades[1]
              /\ Len(LastResult.rPaths[i]) = safeTrades[1]

\* C5 as claimed: runSimulation never raises.  (Configurations with a
\* non-finite count are left to C4, so that the run shown is one with
\* ordinary counts.)
C5_NeverRaises ==
  (IsFinite(cfg.nTrades) /\ IsFinite(cfg.nPaths)) => (pc # "threw" /\ error = "none")

ProgressiveBounded ==
  cfg.progressive.enabled /\ Le(cfg.progressive.minRisk, cfg.progressive.maxRisk)

WithinRiskBounds(risk) ==
  Ge(risk, cfg.progressive.minRisk) /\ Le(risk, cfg.progressive.maxRisk)

\* C6 as claimed: with progressive exposure enabled and minRisk <= maxRisk, the
\* risk fraction applied to every trade of every path lies in [minRisk, maxRisk].
\* (Stated for the base risk fractions >= 0, so that the run shown is one with
\* an ordinary risk fraction.)
C6_AppliedRiskWithinBounds ==
  (ProgressiveBounded /\ Ge(cfg.riskFraction, Num(0))) =>
    /\ \A k \in 1..Len(riskPath) : WithinRiskBounds(riskPath[k])
    /\ \A i \in 1..Len(riskPaths) :
         \A k \in 1..Len(riskPaths[i]) : WithinRiskBounds(riskPaths[i][k])

\* C7 as claimed: with progressive exposure enabled and minRisk <= maxRisk, an
\* adjustment after a win streak never lowers the current risk and an
\* adjustment after a loss streak never raises it.  (Stated for the base risk
\* fractions >= 0, as C6.)
C7_AdjustmentDirection ==
  (ProgressiveBounded /\ Ge(cfg.riskFraction, Num(0))) =>
    /\ adj.kind = "win" => Ge(adj.after, adj.before)
    /\ adj.kind = "loss" => Le(adj.after, adj.before)

\* the risks of the path under way: before each trade made, then the current one
RiskTrace == Append(riskPath, currentRisk)

\* the path under way runs with lossStreakThreshold = 1 and has seen only
\* strictly negative outcomes
AllLossesSoFar ==
  /\ pc = "trade"
  /\ cfg.progressive.enabled
  /\ cfg.progressive.lossStreakThreshold = Num(1)
  /\ Len(riskPath) = t
  /\ \A k \in 1..t : Lt(rPath[k], Num(0))

\* every step of the trace halves the risk or arrives at minRisk, and a risk
\* equal to minRisk stays there
HalvesThenStaysFloored(trace) ==
  \A k \in 1..Len(trace) - 1 :
    /\ trace[k + 1] = Div(trace[k], Num(2)) \/ trace[k + 1] = cfg.progressive.minRisk
    /\ trace[k + 1] = Div(trace[k], Num(2)) => Ge(trace[k + 1], cfg.progressive.minRisk)
    /\ trace[k] = cfg.progressive.minRisk => trace[k + 1] = cfg.progressive.minRisk

\* C8 as claimed: with lossStreakThreshold = 1 and every outcome strictly
\* negative, the current risk is halved after every trade until it reaches
\* minRisk and then stays equal to minRisk.
C8_HalvesUntilFloor ==
  AllLossesSoFar => HalvesThenStaysFloored(RiskTrace)

\* C8 as amended: the same, provided minRisk >= 0.
C8_HalvesUntilFloorNonNegativeFloor ==
  (AllLossesSoFar /\ Ge(cfg.progressive.minRisk, Num(0))) =>
    HalvesThenStaysFloored(RiskTrace)

\* a path of losses on which the risk was first halved above the floor, then
\* reached a positive floor and stayed there
C8_Witness ==
  /\ AllLossesSoFar
  /\ Gt(cfg.progressive.minRisk, Num(0))
  /\ \E k \in 1..Len(RiskTrace) - 1 :
       /\ RiskTrace[k + 1] = Div(RiskTrace[k], Num(2))
       /\ Gt(RiskTrace[k + 1], cfg.progressive.minRisk)
  /\ \E k \in 1..Len(RiskTrace) - 1 :
       /\ RiskTrace[k] = cfg.progressive.minRisk
       /\ RiskTrace[k + 1] = cfg.progressive.minRisk

NoZero(divisors) == \A k \in 1..Len(divisors) : ToNumber(divisors[k]) # Num(0)

\* C9 as claimed: with startEquity > 0, no divisor is zero: the running peak
\* of the simulator, and for every path it returns the peaks of maxDrawdown,
\* of drawdownSeries and the divisors of the monthly block return and drawdown.
C9_NoZeroDivisor ==
  Gt(cfg.startEquity, Num(0)) =>
    /\ (pc = "trade" /\ t > 0) => peak # Num(0)
    /\ Returned =>
         \A i \in 1..Len(LastResult.equityPaths) :
           /\ NoZero(maxDrawdownRun(LastResult.equityPaths[i]).divisors)
           /\ NoZero(drawdownSeriesRun(LastResult.equityPaths[i]).divisors)
           /\ NoZero(monthlyStatsRun(LastResult.equityPaths[i], LastResult.rPaths[i],
                                     cfg.startEquity, cfg.tradesPerMonth,
                                     cfg.startYear, cfg.startMonth).divisors)

\* the product of (1 + returnValue) over the rows
RECURSIVE CompoundedReturn(_)
CompoundedReturn(rows) ==
  IF rows = <<>> THEN Num(1)
  ELSE Mul(CompoundedReturn(SubSeq(rows, 1, Len(rows) - 1)),
           Add(Num(1), rows[Len(rows)].returnValue))

\* the rows of one representative path compound to its total return, start at
\* startEquity, chain from row to row and end at the path's final equity
RowsCompound(rows, idx) ==
  LET final == LastResult.finalEquity[idx + 1]
  IN  /\ StrictEq(CompoundedReturn(rows), Div(final, cfg.startEquity))
      /\ Len(rows) > 0
      /\ StrictEq(rows[Len(rows)].endEquity, final)
      /\ \A m \in 1..Len(rows) :
           StrictEq(rows[m].returnValue,
                    Sub(Div(rows[m].endEquity,
                            IF m = 1 THEN cfg.startEquity ELSE rows[m - 1].endEquity),
                        Num(1)))

\* C10 as claimed: for every representative path and every tradesPerMonth the
\* monthly rows compound to the path's total return.  (Stated for the runs
\* with finite counts and a finite tradesPerMonth whose equity never reaches
\* zero; runs with non-finite counts are C4's, those with a zero equity C9's.)
C10_MonthlyRowsCompound ==
  (/\ Returned
   /\ IsFinite(cfg.nTrades) /\ IsFinite(cfg.nPaths) /\ IsFinite(cfg.tradesPerMonth)
   /\ \A i \in 1..Len(LastResult.equityPaths) : NoZero(LastResult.equityPaths[i])) =>
    /\ RowsCompound(LastResult.monthlyTables.median, LastResult.medianIdx)
    /\ RowsCompound(LastResult.monthlyTables.best, LastResult.bestIdx)
    /\ RowsCompound(LastResult.monthlyTables.worst, LastResult.worstIdx)

(***************************************************************************)
(* Properties of the primitives and of the selection                       *)
(***************************************************************************)
Selected == applied = "select"

\* C11: bestIdx is the first path whose final equity is the maximum of
\* finalEquity, and worstIdx the first path whose final equity is the minimum.
C11_BestWorstFirstExtreme ==
  Selected =>
    LET b == output.bestIdx + 1
        w == output.worstIdx + 1
    IN  /\ b \in 1..Len(input) /\ w \in 1..Len(input)
        /\ \A j \in 1..Len(input) : Le(input[j], input[b]) /\ Ge(input[j], input[w])
        /\ \A j \in 1..(b - 1) : Lt(input[j], input[b])
        /\ \A j \in 1..(w - 1) : Gt(input[j], input[w])

\* the maximum and the minimum both occur twice, neither first at path 0
C11_Witness ==
  /\ Selected
  /\ Len(input) = 3
  /\ output.bestIdx = 1 /\ input[3] = input[2]
  /\ output.worstIdx = 0 /\ input[1] # input[2]

\* |finalEquity[i] - final50| for the 1-based position i
MedianDistance(i) == MathAbs(Sub(input[i], percentile(input, Num(50))))

\* C12: medianIdx is the lowest index that minimises the absolute distance of
\* the final equity to percentile(finalEquity, 50): no path is strictly
\* closer, and no earlier path is as close.
C12_MedianFirstClosest ==
  Selected =>
    LET m == output.medianIdx + 1
    IN  /\ m \in 1..Len(input)
        /\ output.final50 = percentile(input, Num(50))
        /\ \A j \in 1..Len(input) : Le(MedianDistance(m), MedianDistance(j))
        /\ \A j \in 1..(m - 1) : Gt(MedianDistance(j), MedianDistance(m))

\* two different final equities equally far from an interpolated median value,
\* the first one chosen, with a farther path before them
C12_Witness ==
  /\ Selected
  /\ Len(input) = 4
  /\ output.medianIdx = 1
  /\ ~IsInteger(output.final50)
  /\ input[2] # input[3]
  /\ MedianDistance(2) = MedianDistance(3)
  /\ Gt(MedianDistance(1), MedianDistance(2))

PercentileCalled == applied = "percentile" /\ Len(input) >= 1

\* C13: for a non-empty array in any order, percentile(values, 0) is the
\* minimum of the values and percentile(values, 100) their maximum.
C13_PercentileEnds ==
  PercentileCalled =>
    /\ \E i \in 1..Len(input) : input[i] = output[Num(0)]
    /\ \A i \in 1..Len(input) : Le(output[Num(0)], input[i])
    /\ \E i \in 1..Len(input) : input[i] = output[Num(100)]
    /\ \A i \in 1..Len(input) : Ge(output[Num(100)], input[i])

\* an array whose minimum is not its first element and whose maximum is not
\* its last
C13_Witness ==
  /\ PercentileCalled
  /\ Len(input) >= 3
  /\ Lt(output[Num(0)], input[1])
  /\ Gt(output[Num(100)], input[Len(input)])
  /\ Gt(input[1], input[Len(input)])

\* C14: percentile is non-decreasing in p, interpolated ranks included; hence
\* final5 <= final50 <= final95, which are percentile at 5, 50 and 95.
C14_PercentileMonotone ==
  PercentileCalled =>
    \A p1, p2 \in Percents : Le(p1, p2) => Le(output[p1], output[p2])

\* ranks 5, 50 and 95 give three different values, the outer two interpolated
\* between elements of an array that is not sorted
C14_Witness ==
  /\ PercentileCalled
  /\ Lt(output[Num(5)], output[Num(50)]) /\ Lt(output[Num(50)], output[Num(95)])
  /\ \A i \in 1..Len(input) : input[i] # output[Num(5)] /\ input[i] # output[Num(95)]
  /\ Gt(input[1], input[2])

MaxDrawdownCalled == applied = "maxDrawdown" /\ Len(input) >= 1

\* C15: maxDrawdown(series) is <= 0 for every non-empty series, and is 0
\* whenever the series is non-decreasing.
C15_MaxDrawdownNonPositive ==
  MaxDrawdownCalled =>
    /\ Le(output, Num(0))
    /\ NonDecreasing(input) => output = Num(0)

\* a series that rises and never falls, with drawdown 0
C15_Witness ==
  /\ MaxDrawdownCalled
  /\ Len(input) >= 3
  /\ NonDecreasing(input)
  /\ Lt(input[1], input[2]) /\ Lt(input[2], input[Len(input)])
  /\ output = Num(0)

HistogramCalled == applied = "histogram"

RECURSIVE Total(_)
Total(counts) == IF counts = <<>> THEN 0 ELSE counts[1] + Total(Tail(counts))

\* C16: for a non-empty array of finite values and a bin count >= 1, the
\* histogram has binCount bins and its counts sum to the number of values,
\* so every value is counted in exactly one bin of index 0 .. binCount - 1.
C16_HistogramCountsAll ==
  HistogramCalled =>
    /\ Len(output.histogram.counts) = output.binCount
    /\ \A i \in 1..output.binCount : output.histogram.counts[i] >= 0
    /\ Total(output.histogram.counts) = Len(input)

\* several values over two bins, the maximum counted in the last bin
C16_Witness ==
  /\ HistogramCalled
  /\ output.binCount = 2
  /\ Len(input) >= 3
  /\ output.histogram.counts[1] >= 1
  /\ output.histogram.counts[2] >= 1
  /\ Lt(output.histogram.min, output.histogram.max)

(***************************************************************************)
(* Properties of the monthly rows and of the per-path scalars              *)
(***************************************************************************)
\* the 0-based trades of the path that the loops of row k visit: startIdx,
\* startIdx + 1, ... up to endIdx, those of them that are indexes of the path
BlockTrades(k, nTrades) ==
  LET per      == MathMax(Num(1), cfg.tradesPerMonth)
      startIdx == Mul(Num(k - 1), per)
      endIdx   == Sub(MathMin(Mul(Num(k), per), Num(nTrades)), Num(1))
  IN  {i \in 0..(nTrades - 1) :
         Le(startIdx, Num(i)) /\ Le(Num(i), endIdx) /\ IsInteger(Sub(Num(i), startIdx))}

BlockWins(k, outcomes) ==
  Cardinality({i \in BlockTrades(k, Len(outcomes)) : Gt(outcomes[i + 1], Num(0))})

BlockLosses(k, outcomes) ==
  Cardinality({i \in BlockTrades(k, Len(outcomes)) : Lt(outcomes[i + 1], Num(0))})

\* every row's win rate is wins / (wins + losses) of its block, 0 without any
WinRatesRight(rows, idx) ==
  LET outcomes == LastResult.rPaths[idx + 1]
  IN  \A k \in 1..Len(rows) :
        LET wins   == BlockWins(k, outcomes)
            losses == BlockLosses(k, outcomes)
        IN  /\ Ge(rows[k].winRate, Num(0)) /\ Le(rows[k].winRate, Num(1))
            /\ rows[k].winRate =
                 (IF wins + losses = 0 THEN Num(0) ELSE Rat(wins, wins + losses))

FinishedPaths == IF pc \in {"path", "trade", "done"} THEN 1..path ELSE {}

\* the length of the longest run of consecutive strictly negative outcomes
LongestLossRun(outcomes) ==
  LET runs == {k \in 0..Len(outcomes) :
                 \E i \in 1..(Len(outcomes) - k + 1) :
                   \A j \in i..(i + k - 1) : Lt(outcomes[j], Num(0))}
  IN  CHOOSE k \in runs : \A l \in runs : l <= k

\* C18: maxConsecutiveLosses is the length of the longest contiguous run of
\* strictly negative outcomes (an outcome of 0 or above ends the run and is
\* no loss), and this is the scalar stored for each path.
C18_LongestLossRun ==
  \A p \in FinishedPaths :
    /\ maxConsecutiveLosses(rPaths[p]) = Num(LongestLossRun(rPaths[p]))
    /\ maxConsecutiveLossesAll[p] = Num(LongestLossRun(rPaths[p]))

\* a loss, a zero outcome, then two losses: the stored value is 2
C18_Witness ==
  \E p \in FinishedPaths :
    /\ Len(rPaths[p]) = 4
    /\ Lt(rPaths[p][1], Num(0)) /\ rPaths[p][2] = Num(0)
    /\ Lt(rPaths[p][3], Num(0)) /\ Lt(rPaths[p][4], Num(0))
    /\ maxConsecutiveLossesAll[p] = Num(2)

\* C19: with a single point bucket of value 0 every equity value of every
\* path is startEquity, every max drawdown is 0 and every max consecutive
\* losses is 0, with progressive exposure on or off.
C19_ZeroBucketConstant ==
  cfg.buckets = BZero =>
    /\ pc = "trade" => \A i \in 1..t : equityPath[i] = cfg.startEquity
    /\ \A p \in FinishedPaths :
         /\ \A i \in 1..Len(equityPaths[p]) : equityPaths[p][i] = cfg.startEquity
         /\ maxDrawdowns[p] = Num(0)
         /\ maxConsecutiveLossesAll[p] = Num(0)

\* a run with progressive exposure enabled that returned all its paths
C19_Witness ==
  /\ cfg.buckets = BZero
  /\ cfg.progressive.enabled
  /\ Returned
  /\ Len(LastResult.equityPaths) = BasePaths
  /\ \A p \in 1..BasePaths : Len(LastResult.equityPaths[p]) = BaseTrades
  /\ LastResult.finalEquity[BasePaths] = cfg.startEquity

Sampled == applied = "sample" /\ output.buckets # <<>>

\* C20: for a draw u the sampler takes the bucket of lowest index whose
\* cumulative weight is >= u, and the last bucket when there is none.
C20_FirstBucketReachingDraw ==
  Sampled =>
    LET reaching == {i \in 1..Len(output.cumProbs) : DrawLe(output.w, output.cumProbs[i])}
    IN  IF reaching = {}
        THEN output.idx = Len(output.buckets) - 1
        ELSE /\ output.idx + 1 \in reaching
             /\ \A i \in reaching : output.idx + 1 <= i

\* no cumulative weight reaches the draw and the last of several buckets is taken
C20_Witness ==
  /\ Sampled
  /\ Len(output.buckets) >= 2
  /\ \A i \in 1..Len(output.cumProbs) : ~DrawLe(output.w, output.cumProbs[i])
  /\ output.idx = Len(output.buckets) - 1

(***************************************************************************)
(* Properties of the stream of draws                                       *)
(***************************************************************************)
Running == pc \in {"path", "trade", "done"}

\* the calls of rng() that trades of these kinds make: one per point bucket,
\* two per uniform bucket
RECURSIVE Cost(_)
Cost(ks) ==
  IF ks = <<>> THEN 0
  ELSE Cost(SubSeq(ks, 1, Len(ks) - 1)) + (IF ks[Len(ks)] = "point" THEN 1 ELSE 2)

\* the state of mulberry32 after n calls from state a
RECURSIVE AdvanceBy(_, _)
AdvanceBy(a, n) == IF n = 0 THEN a ELSE AdvanceBy(Mulberry32Advance(a), n - 1)

\* the word returned by call number n (1-based) of the stream seeded with cfg.seed
StreamWord(n) == Mulberry32Output(AdvanceBy(ToWord(MathTrunc(cfg.seed)[1]), n))

\* the trades of the run so far, as <<path, trade>> (1-based), in the order
\* path index first, then trade index
TradesSoFar ==
  LET n == IF TypedArrayLengthOk(safeTrades) THEN TypedArrayLength(safeTrades) ELSE 0
  IN  [j \in 1..Len(kinds) |-> <<((j - 1) \div n) + 1, ((j - 1) % n) + 1>>]

\* the outcome recorded for trade j of the run
OutcomeOf(j) ==
  LET p == TradesSoFar[j][1]
      i == TradesSoFar[j][2]
  IN  IF p \in FinishedPaths THEN rPaths[p][i] ELSE rPath[i]

\* C21: a trade makes one call of rng() when its bucket is a point bucket
\* and two when it is uniform (the lookup, then the interpolation); the calls
\* of a run come from one stream, in the order of path index, then trade
\* index: with a seed, trade j reads the words at the positions that follow
\* those of the trades before it.
C21_DrawsPerTrade ==
  Running =>
    /\ Len(kinds) = Cardinality(FinishedPaths) * TypedArrayLength(safeTrades)
                      + (IF pc = "trade" THEN t ELSE 0)
    /\ draws = Cost(kinds)
    /\ rng.seeded =>
         /\ rng.a = AdvanceBy(ToWord(MathTrunc(cfg.seed)[1]), Cost(kinds))
         /\ \A j \in 1..Len(kinds) :
              LET before == Cost(SubSeq(kinds, 1, j - 1))
                  w1     == StreamWord(before + 1)
                  bucket == cfg.buckets[BucketIndex(cfg.buckets, cumProbs, w1) + 1]
              IN  /\ kinds[j] = bucket.type
                  /\ OutcomeOf(j) =
                       SampleOf(bucket, IF bucket.type = "point" THEN w1
                                        ELSE StreamWord(before + 2))

\* a seeded run of several paths that picked point and uniform buckets
C21_Witness ==
  /\ Returned
  /\ rng.seeded
  /\ Len(LastResult.equityPaths) >= 2
  /\ \E j \in 2..Len(kinds) : kinds[j] = "point" /\ kinds[j - 1] = "uniform"
  /\ \E j \in 2..Len(kinds) : kinds[j] = "uniform"

(***************************************************************************)
(* Properties of the progressive-exposure state                            *)
(***************************************************************************)
\* a trade of a path with progressive exposure has just been made
Traded == cfg.progressive.enabled /\ pc = "trade" /\ t >= 1

LastOutcome == rPath[t]

\* C22: with progressive exposure, after every trade at most one streak is
\* non-zero: a positive outcome leaves lossStreak at 0, a negative one
\* winStreak at 0, and an outcome of 0 leaves both at 0 and the risk as it was.
C22_OneStreakAtMost ==
  Traded =>
    /\ winStreak = 0 \/ lossStreak = 0
    /\ Gt(LastOutcome, Num(0)) => lossStreak = 0
    /\ Lt(LastOutcome, Num(0)) => winStreak = 0
    /\ LastOutcome = Num(0) =>
         /\ winStreak = 0 /\ lossStreak = 0
         /\ adj.kind = "none" /\ currentRisk = adj.before

\* an outcome of 0 right after a loss that had left lossStreak at 1
C22_Witness ==
  /\ Traded
  /\ t >= 2
  /\ cfg.progressive.lossStreakThreshold = Num(2)
  /\ Lt(rPath[t - 1], Num(0))
  /\ LastOutcome = Num(0)
  /\ lossStreak = 0 /\ winStreak = 0
  /\ currentRisk = riskPath[t]

\* the number of outcomes of sign sgn (1 or -1) that end the path so far
TrailingRun(sgn) ==
  LET same(i) == IF sgn = 1 THEN Gt(rPath[i], Num(0)) ELSE Lt(rPath[i], Num(0))
      runs    == {k \in 0..t : \A i \in (t - k + 1)..t : same(i)}
  IN  CHOOSE k \in runs : \A l \in runs : l <= k

\* max(1, trunc(threshold)) for a finite threshold
StreakLength(threshold) ==
  LET k == MathTrunc(threshold)[1] IN IF k < 1 THEN 1 ELSE k

\* C23: with thresholds coerced to k = max(1, trunc(threshold)), an
\* adjustment fires exactly at every k-th outcome of a run of same-sign
\* outcomes and resets the streak, so each streak stays below its k, for
\* thresholds of 0 and below as well.
C23_AdjustsAtThreshold ==
  Traded =>
    LET kW == StreakLength(cfg.progressive.winStreakThreshold)
        kL == StreakLength(cfg.progressive.lossStreakThreshold)
    IN  /\ winStreak = TrailingRun(1) % kW
        /\ lossStreak = TrailingRun(-1) % kL
        /\ winStreak < kW /\ lossStreak < kL
        /\ (adj.kind = "win") = (TrailingRun(1) >= 1 /\ TrailingRun(1) % kW = 0)
        /\ (adj.kind = "loss") = (TrailingRun(-1) >= 1 /\ TrailingRun(-1) % kL = 0)

\* a threshold of 2.5 taken as 2: the fourth win in a row adjusts again,
\* the third had not
C23_Witness ==
  /\ Traded
  /\ cfg.progressive.winStreakThreshold = <<5, 2>>
  /\ t = 4
  /\ TrailingRun(1) = 4
  /\ adj.kind = "win"
  /\ riskPath[4] = riskPath[3]
  /\ winStreak = 0

\* C24: the progressive-exposure state is set anew for every path: its first
\* trade is made at the base riskFraction with both streaks at 0, whatever
\* the previous path ended with.
C24_FreshStatePerPath ==
  /\ (pc = "trade" /\ t = 0) =>
       currentRisk = cfg.riskFraction /\ winStreak = 0 /\ lossStreak = 0
  /\ (pc = "trade" /\ t >= 1) => riskPath[1] = cfg.riskFraction
  /\ \A p \in FinishedPaths :
       Len(riskPaths[p]) >= 1 => riskPaths[p][1] = cfg.riskFraction

\* the second path starts while the first one ended at another risk
C24_Witness ==
  /\ cfg.progressive.enabled
  /\ pc = "trade" /\ path = 1 /\ t = 1
  /\ riskPath[1] = cfg.riskFraction
  /\ riskPaths[1][Len(riskPaths[1])] # cfg.riskFraction

(***************************************************************************)
(* Properties of the monthly blocks and labels                             *)
(***************************************************************************)
\* the rows partition the nTrades trades of the path into consecutive blocks
\* of per = max(1, tradesPerMonth) trades, the last one of 1 .. per trades
RowsPartition(rows, idx) ==
  LET nTrades == Len(LastResult.equityPaths[idx + 1])
      per     == MathMax(Num(1), cfg.tradesPerMonth)
      block(k) == BlockTrades(k, nTrades)
  IN  /\ Num(Len(rows)) = MathCeil(Div(Num(nTrades), per))
      /\ \A i \in 0..(nTrades - 1) :
           Cardinality({k \in 1..Len(rows) : i \in block(k)}) = 1
      /\ \A k \in 1..(Len(rows) - 1) : Num(Cardinality(block(k))) = per
      /\ Len(rows) >= 1 =>
           /\ Cardinality(block(Len(rows))) >= 1
           /\ Le(Num(Cardinality(block(Len(rows)))), per)

\* C25 as claimed: for every tradesPerMonth the rows partition the trades
\* 0 .. nTrades - 1 into consecutive blocks of tradesPerMonth trades, the
\* last row holding the remaining 1 .. tradesPerMonth trades, and there are
\* ceil(nTrades / tradesPerMonth) rows.  (Stated for finite counts and a
\* finite tradesPerMonth, a value below 1 taken as 1.)
C25_RowsPartitionTrades ==
  (/\ Returned
   /\ IsFinite(cfg.nTrades) /\ IsFinite(cfg.nPaths) /\ IsFinite(cfg.tradesPerMonth)) =>
    /\ RowsPartition(LastResult.monthlyTables.median, LastResult.medianIdx)
    /\ RowsPartition(LastResult.monthlyTables.best, LastResult.bestIdx)
    /\ RowsPartition(LastResult.monthlyTables.worst, LastResult.worstIdx)

\* the same for the values of tradesPerMonth that are whole numbers once a
\* value below 1 is taken as 1: for these the rows do partition the trades
C25_RowsPartitionWholeBlocks ==
  (/\ Returned
   /\ IsFinite(cfg.nTrades) /\ IsFinite(cfg.nPaths) /\ IsFinite(cfg.tradesPerMonth)
   /\ IsInteger(MathMax(Num(1), cfg.tradesPerMonth))) =>
    /\ RowsPartition(LastResult.monthlyTables.median, LastResult.medianIdx)
    /\ RowsPartition(LastResult.monthlyTables.best, LastResult.bestIdx)
    /\ RowsPartition(LastResult.monthlyTables.worst, LastResult.worstIdx)

\* the labels of the rows are consecutive months from (startYear, startMonth)
LabelsConsecutive(rows) ==
  /\ Len(rows) >= 1 => rows[1].year = cfg.startYear /\ rows[1].month = cfg.startMonth
  /\ \A k \in 2..Len(rows) :
       IF rows[k - 1].month = Num(12)
       THEN rows[k].month = Num(1) /\ rows[k].year = Add(rows[k - 1].year, Num(1))
       ELSE rows[k].month = Add(rows[k - 1].month, Num(1)) /\ rows[k].year = rows[k - 1].year
  /\ \A k \in 1..Len(rows) : Ge(rows[k].month, Num(1)) /\ Le(rows[k].month, Num(12))

\* C26: the monthly rows carry consecutive calendar labels from
\* (startYear, startMonth), December followed by January of the next year,
\* and with startMonth in 1 .. 12 every month is in 1 .. 12.
C26_CalendarLabels ==
  (/\ Returned
   /\ IsInteger(cfg.startMonth) /\ cfg.startMonth[1] \in 1..12) =>
    /\ LabelsConsecutive(LastResult.monthlyTables.median)
    /\ LabelsConsecutive(LastResult.monthlyTables.best)
    /\ LabelsConsecutive(LastResult.monthlyTables.worst)

\* rows labelled November, December, then January of the next year
C26_Witness ==
  /\ Returned
  /\ LET rows == LastResult.monthlyTables.median
     IN  /\ Len(rows) >= 3
         /\ rows[1].month = Num(11) /\ rows[2].month = Num(12) /\ rows[3].month = Num(1)
         /\ rows[2].year = cfg.startYear
         /\ rows[3].year = Add(cfg.startYear, Num(1))

\* C27: computing the statistics leaves the simulated data as the path loop
\* produced it: the equity paths, the outcome paths, the final equities and
\* the maximum drawdowns are neither reordered nor changed, in the program's
\* arrays and in the result it returns, so index i still refers to path i.
C27_AggregationKeepsData ==
  [][(pc = "path" /\ pc' = "done") =>
       /\ equityPaths' = equityPaths
       /\ rPaths' = rPaths
       /\ finalEquity' = finalEquity
       /\ maxDrawdowns' = maxDrawdowns
       /\ LET r == results'[Len(results')]
          IN  /\ r.equityPaths = equityPaths
              /\ r.rPaths = rPaths
              /\ r.finalEquity = finalEquity
              /\ r.maxDrawdowns = maxDrawdowns]_vars

\* a returned run whose final equities and maximum drawdowns are both out of
\* ascending order
C27_Witness ==
  /\ Returned
  /\ Len(finalEquity) >= 2
  /\ Lt(finalEquity[2], finalEquity[1])
  /\ Lt(maxDrawdowns[2], maxDrawdowns[1])
  /\ LastResult.finalEquity = finalEquity

\* every equity of the path is a positive finite number
PositivePath(series) ==
  \A k \in 1..Len(series) : IsFinite(series[k]) /\ Gt(series[k], Num(0))

\* C28: the maximum drawdown recorded for a path is the minimum of
\* drawdownSeries of its equity series and is maxDrawdown of that series.
\* Stated for paths of at least one trade whose equities, the start equity
\* included, are positive finite numbers.
C28_RecordedDrawdownOfSeries ==
  Returned =>
    \A i \in 1..Len(equityPaths) :
      (/\ Len(equityPaths[i]) >= 1
       /\ PositivePath(equityPaths[i])
       /\ IsFinite(cfg.startEquity) /\ Gt(cfg.startEquity, Num(0))) =>
        /\ maxDrawdowns[i] = MinOf(drawdownSeries(equityPaths[i]))
        /\ maxDrawdowns[i] = maxDrawdown(equityPaths[i])

\* C29: when some bucket has a positive weight, the sampler never takes a
\* bucket whose clamped weight is 0, whatever the draw of [0, 1).
C29_ZeroWeightNeverSampled ==
  (/\ Sampled
   /\ \A i \in 1..Len(output.buckets) : IsFinite(ToNumber(output.buckets[i].p))
   /\ \E i \in 1..Len(output.buckets) : Gt(output.buckets[i].p, Num(0))) =>
    Gt(Probs(output.buckets)[output.idx + 1], Num(0))

\* C30: with a finite seed, a run of the same configuration with more paths
\* returns, for every path of the run before, the same equity series, outcome
\* series, final equity and maximum drawdown.
C30_MorePathsKeepEarlierPaths ==
  (Returned /\ previous # <<>> /\ IsFinite(cfg.seed)) =>
    \A i \in 1..Len(previous[1].equityPaths) :
      /\ i <= Len(LastResult.equityPaths)
      /\ LastResult.equityPaths[i] = previous[1].equityPaths[i]
      /\ LastResult.rPaths[i] = previous[1].rPaths[i]
      /\ LastResult.finalEquity[i] = previous[1].finalEquity[i]
      /\ LastResult.maxDrawdowns[i] = previous[1].maxDrawdowns[i]

\* BasePaths paths, not all alike, run again with two more paths
C30_Witness ==
  /\ Returned /\ previous # <<>> /\ IsFinite(cfg.seed)
  /\ Len(previous[1].equityPaths) = BasePaths
  /\ Len(LastResult.equityPaths) = BasePaths + 2
  /\ previous[1].rPaths[1] # previous[1].rPaths[2]
  /\ LastResult.rPaths[BasePaths + 1] # LastResult.rPaths[1]

====
